---- MODULE Spec2Model ----
(***************************************************************************)
(* Model of the single-zone compartment fire model (zone_model_1):         *)
(* main() of src/src/zone_model_1/main.py with the helpers it calls, and   *)
(* the stand-alone boundary solver loop of heat_transfer_1d_plus_qinc.py.  *)
(*                                                                         *)
(* Floating-point quantities are held in fixed point.  Units:              *)
(*   lengths b, d, h, H_o, B_o        m                                    *)
(*   temperatures                     0.1 K  (293.0 K is 2930)             *)
(*   heat release rates, heat flows   W      (tables: kW)                  *)
(*   heat fluxes                      W/m^2                                *)
(*   boundary: k 0.1 W/(m K), rho 100 kg/m^3, c kJ/(kg K), L mm            *)
(*             so alpha = k/(rho c) mm^2/s and dx = L/(N-1) mm             *)
(*   times, dt, alpha, dx             exact rationals <<num, den>>         *)
(*   char depth  um, charring rate  um/min, MLR  mg/(m^2 s)                *)
(*   fractions conv_fract, ceiling_exposed  per cent; E_net  tenths        *)
(* Every product is rounded down to its unit (\div).                       *)
(***************************************************************************)
EXTENDS Integers, Sequences, FiniteSets, TLC

VARIABLES
    pc,                     \* "start" | "loop" | "done" | "wall"
    cfg,                    \* the arguments of main()
    Input,                  \* the table read from Input.xlsx
    env,                    \* values fixed before the loop (main.py 119-186)
    i,                      \* loop index of the last completed step
    T_f,                    \* gas temperature
    T, T_new, T_history,                    \* wall field, scratch, history
    T_ceil, T_ceil_new, T_ceil_history,
    T_floor, T_floor_new, T_floor_history,
    MLR, char_rho,          \* carried char state
    HRR_content, q_rad_wall,\* step locals kept by the function frame
    output_time_arr, output_gas_temp_arr, output_char_depth_arr,
    output_charring_rate_arr, output_MLR_arr, output_HRR_wood_arr,
    output_HRR_total_arr, output_HRR_ext_arr,
    HRR_time_arr, HRR_arr,  \* the two lists time_vs_HRR builds (hrr.py 178-179)
    obj                     \* the array object each field name is bound to

vars == <<pc, cfg, Input, env, i, T_f, T, T_new, T_history,
          T_ceil, T_ceil_new, T_ceil_history,
          T_floor, T_floor_new, T_floor_history, MLR, char_rho,
          HRR_content, q_rad_wall,
          output_time_arr, output_gas_temp_arr, output_char_depth_arr,
          output_charring_rate_arr, output_MLR_arr, output_HRR_wood_arr,
          output_HRR_total_arr, output_HRR_ext_arr, HRR_time_arr, HRR_arr, obj>>

----------------------------------------------------------------------------
(* Arithmetic *)

Max(a, b) == IF a >= b THEN a ELSE b
Min(a, b) == IF a <= b THEN a ELSE b
Last(s) == s[Len(s)]

RECURSIVE Gcd(_, _)
Gcd(a, b) == IF b = 0 THEN a ELSE Gcd(b, a % b)

\* exact rationals <<num, den>>, den > 0, in lowest terms
Rat(n, d) ==
    LET s == IF d < 0 THEN -1 ELSE 1
        a == IF n < 0 THEN -n ELSE n
        g == Gcd(a, s * d)
    IN  <<(s * n) \div g, (s * d) \div g>>
RatLt(p, q) == p[1] * q[2] < q[1] * p[2]
RatLe(p, q) == p[1] * q[2] <= q[1] * p[2]
RatMul(p, q) == Rat(p[1] * q[1], p[2] * q[2])
RatDiv(p, q) == Rat(p[1] * q[2], p[2] * q[1])
RatMin(p, q) == IF RatLt(q, p) THEN q ELSE p
RatMax(p, q) == IF RatLt(p, q) THEN q ELSE p

RECURSIVE RootSearch(_, _, _, _)
\* largest r in lo..hi with r^e <= n  (e is 2 or 3)
RootSearch(n, e, lo, hi) ==
    IF lo >= hi THEN lo
    ELSE LET mid == (lo + hi + 1) \div 2
             pw == IF e = 2 THEN mid * mid ELSE mid * mid * mid
         IN  IF pw <= n THEN RootSearch(n, e, mid, hi)
             ELSE RootSearch(n, e, lo, mid - 1)
ISqrt(n) == RootSearch(n, 2, 0, Min(n, 46340))
ICbrt(n) == RootSearch(n, 3, 0, Min(n, 1290))

Round_truncating(p) == p[1] \div p[2]

\* Python round(n/d): to nearest, ties to even (d > 0)
Round(p) ==
    LET q == p[1] \div p[2]
        r == p[1] % p[2]
    IN  IF 2 * r < p[2] THEN q
        ELSE IF 2 * r > p[2] THEN q + 1
        ELSE IF q % 2 = 0 THEN q ELSE q + 1

----------------------------------------------------------------------------
(* scipy.interpolate.interp1d(x, y, kind="linear", fill_value="extrapolate") *)

RECURSIVE InsertPt(_, _)
InsertPt(p, s) ==
    IF s = <<>> THEN <<p>>
    ELSE IF p[1] < s[1][1] THEN <<p>> \o s
    ELSE <<s[1]>> \o InsertPt(p, Tail(s))

RECURSIVE SortPts(_)
\* interp1d sorts its points by x (stable); s is a sequence of <<x, y>>
SortPts(s) ==
    IF s = <<>> THEN <<>>
    ELSE InsertPt(s[Len(s)], SortPts(SubSeq(s, 1, Len(s) - 1)))

Zip(xs, ys) == [j \in 1..Len(xs) |-> <<xs[j], ys[j]>>]

interp1d_clamped(pts, t) ==
    LET n == Len(pts)
        tc == RatMax(<<pts[1][1], 1>>, RatMin(<<pts[n][1], 1>>, t))
        below == Cardinality({j \in 1..n : RatLt(<<pts[j][1], 1>>, tc)})
        hi == Max(1, Min(below, n - 1)) + 1
        lo == hi - 1
        num == (pts[hi][2] - pts[lo][2]) * (tc[1] - pts[lo][1] * tc[2])
        den == (pts[hi][1] - pts[lo][1]) * tc[2]
    IN  pts[lo][2] + (num \div den)

\* value at the rational time t of the piecewise-linear curve through pts:
\* the segment is chosen by searchsorted and clipped to the first and the
\* last segment, so a time outside the table is extrapolated linearly
interp1d(pts, t) ==
    LET n == Len(pts)
        below == Cardinality({j \in 1..n : RatLt(<<pts[j][1], 1>>, t)})
        hi == Max(1, Min(below, n - 1)) + 1
        lo == hi - 1
        num == (pts[hi][2] - pts[lo][2]) * (t[1] - pts[lo][1] * t[2])
        den == (pts[hi][1] - pts[lo][1]) * t[2]
    IN  pts[lo][2] + (num \div den)

----------------------------------------------------------------------------
(* zone_model_1/hrr.py *)

vent_cont_HRR_no_sqrt(Av, Hv) == 1130 * Av * Hv * 1000

\* Q_vc = 1130 Av sqrt(Hv) in kW; the caller's "* 1000" is folded in (sqrt in
\* thousandths), so the value is in W
vent_cont_HRR(Av, Hv) == 1130 * Av * ISqrt(Hv * 1000000)

\* In time_vs_HRR heat release rates are in W, energies in kJ, durations in
\* tenths of a second, the growth rate in W/s^2

\* Q_fo = 7.8 At + 378 Av sqrt(Hv) kW
HRR_flash(At, Av, Hv) == 7800 * At + 378 * Av * ISqrt(Hv * 1000000)

\* t_grow = sqrt(Q / alpha)
Time_to_grow(growth_rate, HRR) == ISqrt((HRR * 100) \div growth_rate)

\* (1/3) alpha t_grow^3
FLE_grow(t_grow, growth_rate) ==
    (((growth_rate * t_grow * t_grow) \div 10000) * t_grow) \div 300

\* Q_fc = Af HRRPUA kW
fuel_cont_HRR(Af, HRRPUA) == Af * HRRPUA * 1000

steady_burn_time_of_60_percent(FLE_grow_val, FLE, Q_max) ==
    ((((6 * FLE) \div 10) - FLE_grow_val) * 100) \div (Q_max \div 100)

\* (0.7 FLE - FLE_grow) / Q_max
steady_burn_time(FLE_grow_val, FLE, Q_max) ==
    ((((7 * FLE) \div 10) - FLE_grow_val) * 100) \div (Q_max \div 100)

decay_time_of_remainder(FLE, Q_max) == (((3 * FLE) \div 10) * 100) \div (Q_max \div 100)

\* 0.6 FLE / Q_max
decay_time(FLE, Q_max) == (((6 * FLE) \div 10) * 100) \div (Q_max \div 100)

t_squared_fire_of_next(growth_rate, time) == growth_rate * (time + 1) * (time + 1)

\* Q(t) = alpha t^2, t in whole seconds
t_squared_fire(growth_rate, time) == growth_rate * time * time

----------------------------------------------------------------------------
(* zone_model_1/heat_transfer_1d_plus_qinc.py *)

alpha_calc(k, rho, c) == Rat(k, rho * c)

ht_dx_dt_sub_no_margin(L, N, alpha) ==
    LET dx == Rat(L, N - 1)
    IN  <<dx, RatDiv(RatMul(<<1, 2>>, RatMul(dx, dx)), alpha)>>

\* dx = L/(N-1); dt = (0.5 dx^2 / alpha) / 2
ht_dx_dt_sub(L, N, alpha) ==
    LET dx == Rat(L, N - 1)
    IN  <<dx, RatDiv(RatDiv(RatMul(<<1, 2>>, RatMul(dx, dx)), alpha), <<2, 1>>)>>

----------------------------------------------------------------------------
(* zone_model_1/heat_transfer_1d_plus_qinc.py: update_wall_temp_array *)

\* T^4 of a temperature in 0.1 K, in units of 10^6 K^4
Pow4(Tk) == (((Tk * Tk) \div 10000) * ((Tk * Tk) \div 10000)) \div 100

\* sigma (Ta^4 - Tb^4) in W/m^2, sigma in 10^-10 W/(m^2 K^4)
StefanBoltzmann(sigma, Ta, Tb) == ((Pow4(Ta) - Pow4(Tb)) * sigma) \div 10000

\* alpha dt / dx^2
Fourier(alpha, dt, dx) == RatDiv(RatMul(alpha, dt), RatMul(dx, dx))

interior_node_no_centre(Tw, j, alpha, dt, dx) ==
    LET Fo == Fourier(alpha, dt, dx)
    IN  Tw[j] + ((Fo[1] * (Tw[j + 1] - Tw[j] + Tw[j - 1])) \div Fo[2])

\* line 56, node j (1-based) of the field Tw
interior_node(Tw, j, alpha, dt, dx) ==
    LET Fo == Fourier(alpha, dt, dx)
    IN  Tw[j] + ((Fo[1] * (Tw[j + 1] - 2 * Tw[j] + Tw[j - 1])) \div Fo[2])

\* lines 59-66: exposed surface
exposed_node(Tw, alpha, dt, dx, h, Tg, epsilon, sigma, rho, c, q_inc) ==
    LET Fo == Fourier(alpha, dt, dx)
        flux == ((h * (Tg - Tw[1])) \div 10)
                + ((epsilon * StefanBoltzmann(sigma, Tg, Tw[1])) \div 10)
                + q_inc
        coef == RatDiv(dt, RatMul(<<10 * rho * c, 1>>, dx))
    IN  Tw[1] + (((flux * coef[1]) \div coef[2])
                 + ((Fo[1] * (Tw[2] - Tw[1])) \div Fo[2]))

\* line 69: insulated surface
insulated_node(Tw, N, alpha, dt, dx) ==
    LET Fo == Fourier(alpha, dt, dx)
    IN  Tw[N] + ((Fo[1] * (Tw[N - 1] - Tw[N])) \div Fo[2])

scratch_after_interior_unwritten(Tw, Tn, alpha, dt, dx, h, Tg, epsilon, sigma, rho, c, N, q_inc) ==
    [j \in 1..Len(Tn) |->
        IF j = N THEN insulated_node(Tw, N, alpha, dt, dx)
        ELSE IF j = 1
             THEN exposed_node(Tw, alpha, dt, dx, h, Tg, epsilon, sigma, rho, c, q_inc)
        ELSE Tn[j]]

\* the scratch array after lines 54-69: the interior nodes are written first,
\* then node 0, then node N-1; an entry no line writes keeps its old value
scratch_after(Tw, Tn, alpha, dt, dx, h, Tg, epsilon, sigma, rho, c, N, q_inc) ==
    [j \in 1..Len(Tn) |->
        IF j = N THEN insulated_node(Tw, N, alpha, dt, dx)
        ELSE IF j = 1
             THEN exposed_node(Tw, alpha, dt, dx, h, Tg, epsilon, sigma, rho, c, q_inc)
        ELSE IF j < N THEN interior_node(Tw, j, alpha, dt, dx)
        ELSE Tn[j]]

\* the returned field: T = T_new.copy()
update_wall_temp_array(Tw, Tn, alpha, dt, dx, h, Tg, epsilon, sigma, rho, c, N, q_inc) ==
    scratch_after(Tw, Tn, alpha, dt, dx, h, Tg, epsilon, sigma, rho, c, N, q_inc)

ndarray_same_object(id, fresh) == id

\* line 72, main.py 129-137: x.copy() is a new array object
ndarray_copy(id, fresh) == fresh

RECURSIVE interior_in_place(_, _, _, _, _, _)
\* lines 55-56 writing into the array they read: node j sees the new node j-1
interior_in_place(Tw, j, N, alpha, dt, dx) ==
    IF j >= N THEN Tw
    ELSE interior_in_place([Tw EXCEPT ![j] = interior_node(Tw, j, alpha, dt, dx)],
                           j + 1, N, alpha, dt, dx)

\* lines 54-69 when T_new is the array T itself: every assignment is seen
\* by the ones after it
scratch_after_aliased(Tw, alpha, dt, dx, h, Tg, epsilon, sigma, rho, c, N, q_inc) ==
    LET a == interior_in_place(Tw, 2, N, alpha, dt, dx)
        b == [a EXCEPT ![1] = exposed_node(a, alpha, dt, dx, h, Tg, epsilon,
                                           sigma, rho, c, q_inc)]
    IN  [b EXCEPT ![N] = insulated_node(b, N, alpha, dt, dx)]

\* the field a call returns, for arguments T and T_new that are, or are not,
\* the same array object
wall_call(same_object, Tw, Tn, alpha, dt, dx, h, Tg, epsilon, sigma, rho, c, N, q_inc) ==
    IF same_object
    THEN scratch_after_aliased(Tw, alpha, dt, dx, h, Tg, epsilon, sigma, rho, c, N, q_inc)
    ELSE update_wall_temp_array(Tw, Tn, alpha, dt, dx, h, Tg, epsilon, sigma,
                                rho, c, N, q_inc)

\* the contents of the array passed as T once the call has returned: lines
\* 55-69 assign to T_new only, line 72 rebinds the local name T
input_after(same_object, Tw, returned) == IF same_object THEN returned ELSE Tw

----------------------------------------------------------------------------
(* zone_model_1/core.py *)

\* sqrt(H) in thousandths
SqrtMilli(H) == ISqrt(H * 1000000)

\* 0.5 A_o c_p (Tf - Tinf) sqrt(H_o)
q_o_c_calc(H_o, A_o, c_p, Tf, Tinf) ==
    (((A_o * c_p * (Tf - Tinf)) \div 200) * SqrtMilli(H_o)) \div 100

\* A_o Ef 5.67e-8 (Tf^4 - Tinf^4), Ef in thousandths
q_o_r_calc(A_o, Ef, Tf, Tinf) ==
    (A_o * Ef * StefanBoltzmann(567, Tf, Tinf)) \div 1000

\* hc (Tf - Tw) + E_net 5.67e-8 (Tf^4 - Tw^4)
q_w(Tf, Tw, hc, E_net) ==
    ((hc * (Tf - Tw)) \div 10) + ((E_net * StefanBoltzmann(567, Tf, Tw)) \div 10)

gas_energy_balance(HRR, Q_w, Q_o_c, Q_o_r) == HRR - (Q_w + Q_o_c + Q_o_r)

\* (Q_gas dt) / (rho_air c_p V_gas) in 0.1 K, rho_air in g/m^3
delta_gas_temp(Q_gas, dt, rho_air, c_p, V_gas) ==
    (((Q_gas * dt[1]) \div dt[2]) * 10) \div (((rho_air * c_p) \div 1000) * V_gas)

\* rad_path_len = (3 V / (4 pi))^(1/3) in cm; q = rad_fraction HRR / (4 pi r^2)
wall_rad_hf(gas_volume, rad_fraction, HRR) ==
    LET rad_path_len == ICbrt(gas_volume * 238732)
        sphere_dm2 == (12566 * rad_path_len * rad_path_len) \div 100000
    IN  (rad_fraction * HRR) \div sphere_dm2

\* 1 - exp(-1.1 h) in thousandths, h in 1..4 m
fire_emissivity(h) == <<667, 889, 963, 988>>[h]

----------------------------------------------------------------------------
(* zone_model_1/charring.py and zone_model_1/char_regression.py *)

RECURSIVE SimpsonSum(_, _)
\* y1 + 4 y2 + 2 y3 + ... + 4 y(n-1) + yn over the first n points, n odd
SimpsonSum(y, n) ==
    IF n = 1 THEN y[1]
    ELSE SimpsonSum(y, n - 2) + y[n - 2] + 4 * y[n - 1] + y[n]

\* 12/h times scipy.integrate.simpson(y, x) for equally spaced x: Simpson's
\* rule over an even number of intervals; with an odd number, Simpson's rule
\* over all but the last interval and the parabolic rule
\* h (5 yn + 8 y(n-1) - y(n-2)) / 12 for the last; the trapezoid for two points
simps12(y) ==
    LET n == Len(y)
    IN  IF n = 1 THEN 0
        ELSE IF n = 2 THEN 6 * (y[1] + y[2])
        ELSE IF n % 2 = 1 THEN 4 * SimpsonSum(y, n)
        ELSE 4 * SimpsonSum(y, n - 1) + 5 * y[n] + 8 * y[n - 1] - y[n - 2]

\* x^(1/1.6) = sqrt(x sqrt(sqrt(x))); X is x in 10^-4, the result in 10^-3
Pow_1_over_1_6(X) ==
    LET s1 == ISqrt(X * 10000)
        s2 == ISqrt(s1 * 100)
    IN  ISqrt((X * s2) \div 10)

\* d_char = (simps(Temp^2, time) / 1.35e5)^(1/1.6); Temp in 0.1 K, time a
\* sequence of rationals in minutes; the result in um
char_depth_integral(Temp, time) ==
    LET T_squared == [j \in 1..Len(Temp) |-> (Temp[j] * Temp[j]) \div 100]
        h == IF Len(time) < 2 THEN <<0, 1>>
             ELSE Rat(time[2][1] * time[1][2] - time[1][1] * time[2][2],
                      time[1][2] * time[2][2])
        X == (simps12(T_squared) * h[1]) \div (h[2] * 162)
    IN  Pow_1_over_1_6(X)

\* char_rho = 230 / sqrt(char_thick), char_thick in um; a zero depth divides
\* by zero, which numpy answers with inf (a value above every density)
char_density(char_thick) ==
    LET r == ISqrt(char_thick * 1000)
    IN  IF r = 0 THEN 1000000 ELSE 230000 \div r

\* regression_rate char_density char_HoC in W/m^2: regression_rate in um/min
\* (the caller's /(60*1000) folded in), char_HoC in kJ/kg (the caller's *1000
\* folded in)
char_reg_HRR(char_density_, regression_rate, char_HoC) ==
    (((regression_rate * char_density_) \div 60) * char_HoC) \div 1000

----------------------------------------------------------------------------
(* scipy.ndimage.gaussian_filter1d(a, sigma=1.5): 13 taps (radius 6), the
   normalised weights in 1/10000, boundary mode "reflect" *)

GaussWeight(o) == <<2660, 2130, 1093, 360, 76, 10, 1>>[(IF o < 0 THEN -o ELSE o) + 1]

\* index 1..n standing for position j (any integer) of the reflected array
Reflect(j, n) ==
    LET m == (j - 1) % (2 * n)
    IN  IF m < n THEN m + 1 ELSE 2 * n - m

RECURSIVE TapSum(_, _, _)
TapSum(a, j, o) ==
    IF o > 6 THEN 0
    ELSE GaussWeight(o) * a[Reflect(j + o, Len(a))] + TapSum(a, j, o + 1)

gaussian_filter1d(a) == [j \in 1..Len(a) |-> TapSum(a, j, -6) \div 10000]

----------------------------------------------------------------------------
(* Bounds and input sets *)

MaxSteps == 12      \* loop iterations explored per run
MaxCalls == 4       \* solver calls explored in the stand-alone solver loop

\* boundary linings: k, rho, c, T0, L, N
Lining(k, rho, c, T0, L, N) == [k |-> k, rho |-> rho, c |-> c, T0 |-> T0, L |-> L, N |-> N]
LiningA == Lining(1, 5, 1, 2930, 4, 3)      \* dt = 5 s
LiningB == Lining(2, 8, 1, 2930, 4, 5)      \* dt = 1 s
LiningC == Lining(1, 4, 2, 2930, 6, 4)      \* dt = 8 s
LiningD == Lining(3, 5, 2, 2930, 3, 3)      \* dt = 15/8 s
LiningE == Lining(1, 5, 1, 2930, 2, 2)      \* dt = 5 s, two nodes

Boundaries ==
    { <<LiningA, LiningC, LiningC>>, <<LiningC, LiningD, LiningA>>,
      <<LiningA, LiningB, LiningC>>, <<LiningE, LiningC, LiningA>> }

Geometries ==
    { [b |-> 2, d |-> 2, h |-> 2, H_o |-> 1, B_o |-> 1],
      [b |-> 3, d |-> 2, h |-> 2, H_o |-> 2, B_o |-> 1] }

\* <<T_inf, T_f>>
Temperatures == { <<2930, 2930>>, <<3000, 3000>>, <<2930, 3200>> }

Configs ==
    { [b |-> g.b, d |-> g.d, h |-> g.h, H_o |-> g.H_o, B_o |-> g.B_o,
       T_inf |-> t[1], T_f |-> t[2],
       wood_density |-> 450, wood_Hoc |-> 15500, ceiling_exposed |-> 174,
       regress |-> 700, char_HoC |-> 32000,
       c_p |-> 1000, E_net |-> 7, rho_air |-> 1204, conv_fract |-> 60,
       wall |-> w[1], ceil |-> w[2], floor |-> w[3],
       hc |-> 35, sigma |-> 567] :
      g \in Geometries, t \in Temperatures, w \in Boundaries }

\* Input.xlsx: columns Time_s [s] and HRR_kW [kW]
InputTables ==
    { [Time_s |-> <<0, 3, 6, 10>>, HRR_kW |-> <<0, 400, 400, 0>>],
      [Time_s |-> <<2, 5, 11>>, HRR_kW |-> <<0, 4000, 0>>] }

\* lining-ignition times [s] that RHR.time_vs_hrr may return
IgnitionTimes == { 0, 4, 9, 1000 }

\* the five results of RHR.time_vs_hrr (line 155): the generated curve [s, kW],
\* the lining-ignition time and the decay window [s]
GeneratedCurves ==
    { [HRR_time_arr |-> <<0, t + 1, t + 20>>, HRR_hrr_arr |-> <<0, 500, 0>>,
       ceiling_ignition_time |-> t, start_dec |-> t + 10, end_dec |-> t + 20] :
      t \in IgnitionTimes }

----------------------------------------------------------------------------
(* main(): before the loop, main.py 119-209 *)

\* the cap of lines 146 and 169, in W
HRR_VC_lim_calc(H_o, B_o) == vent_cont_HRR(H_o * B_o, H_o)

dt_calc_max(dt1, dt2, dt3) == RatMax(dt1, RatMax(dt2, dt3))

\* line 183
dt_calc(dt1, dt2, dt3) == RatMin(dt1, RatMin(dt2, dt3))

\* np.ones(N) * T0
ones(N, T0) == [j \in 1..N |-> T0]

init_char_depth_empty == <<>>

\* line 191: np.array([0])
init_char_depth == <<0>>

\* lines 158-164: HRR_prescribed is 'yes', so the table read from Input.xlsx
\* and the two literals replace four of the five generated values
prescribed(gen, inp) ==
    [gen EXCEPT !.HRR_time_arr = inp.Time_s, !.HRR_hrr_arr = inp.HRR_kW,
                !.start_dec = 3585, !.end_dec = 5400]

Environment(c, inp, gen) ==
    LET p == prescribed(gen, inp)
        alpha_wall == alpha_calc(c.wall.k, c.wall.rho, c.wall.c)
        alpha_ceil == alpha_calc(c.ceil.k, c.ceil.rho, c.ceil.c)
        alpha_floor == alpha_calc(c.floor.k, c.floor.rho, c.floor.c)
        opening_area == c.H_o * c.B_o
        start_dec == p.start_dec
        end_dec == p.end_dec
        end_time == Last(p.HRR_time_arr)
        sw == ht_dx_dt_sub(c.wall.L, c.wall.N, alpha_wall)
        sc == ht_dx_dt_sub(c.ceil.L, c.ceil.N, alpha_ceil)
        sf == ht_dx_dt_sub(c.floor.L, c.floor.N, alpha_floor)
        dt == dt_calc(sw[2], sc[2], sf[2])
    IN  [ Ef |-> fire_emissivity(c.h),
          alpha_wall |-> alpha_wall, alpha_ceil |-> alpha_ceil,
          alpha_floor |-> alpha_floor,
          opening_area |-> opening_area,
          wall_area |-> (2 * (c.b + c.d) * c.h) - opening_area,
          ceiling_area |-> c.b * c.d,
          floor_area |-> c.b * c.d,
          gas_volume |-> c.b * c.d * c.h,
          ceiling_ignition_time |-> p.ceiling_ignition_time,
          start_dec |-> start_dec, end_dec |-> end_dec,
          HRR_time_arr |-> p.HRR_time_arr,
          HRR_hrr_arr |-> [j \in 1..Len(p.HRR_hrr_arr) |-> p.HRR_hrr_arr[j] * 1000],
          HRR_interp |-> SortPts(Zip(p.HRR_time_arr,
                            [j \in 1..Len(p.HRR_hrr_arr) |-> p.HRR_hrr_arr[j] * 1000])),
          HRR_VC_lim |-> HRR_VC_lim_calc(c.H_o, c.B_o),
          end_time |-> end_time,
          char_reg_interp |->
              SortPts(Zip(<<0, start_dec, end_dec, end_time>>,
                          <<0, 0, c.regress, c.regress>>)),
          dx_wall |-> sw[1], dx_ceil |-> sc[1], dx_floor |-> sf[1],
          dt1 |-> sw[2], dt2 |-> sc[2], dt3 |-> sf[2],
          dt |-> dt,
          steps |-> RatDiv(<<end_time, 1>>, dt) ]

Init ==
    /\ pc = "start"
    /\ cfg \in Configs
    /\ Input \in InputTables
    /\ env = <<>>
    /\ i = 0
    /\ T_f = cfg.T_f
    /\ T = <<>> /\ T_new = <<>> /\ T_history = <<>>
    /\ T_ceil = <<>> /\ T_ceil_new = <<>> /\ T_ceil_history = <<>>
    /\ T_floor = <<>> /\ T_floor_new = <<>> /\ T_floor_history = <<>>
    /\ MLR = 0 /\ char_rho = 0
    /\ HRR_content = 0 /\ q_rad_wall = 0
    /\ output_time_arr = <<>>
    /\ output_gas_temp_arr = <<>>
    /\ output_char_depth_arr = <<>>
    /\ output_charring_rate_arr = <<>>
    /\ output_MLR_arr = <<>>
    /\ output_HRR_wood_arr = <<>>
    /\ output_HRR_total_arr = <<>>
    /\ output_HRR_ext_arr = <<>>
    /\ HRR_time_arr = <<>> /\ HRR_arr = <<>>
    /\ obj = <<>>

\* a float division by zero before the loop: rho c = 0 in alpha_calc
\* (heat_transfer_1d_plus_qinc.py 105), N = 1 or alpha = 0 in ht_dx_dt_sub
\* (91-92), dt = 0 in steps = end_time / dt (main.py 185; dt = 0 needs a
\* lining of thickness 0)
ZeroDivision(c) ==
    \E l \in {c.wall, c.ceil, c.floor} :
        l.rho * l.c = 0 \/ l.N = 1 \/ l.k = 0 \/ l.L = 0

\* lines 119-209; the lining-ignition time is the third result of
\* RHR.time_vs_hrr (line 155)
Setup ==
    /\ pc = "start"
    /\ ~ZeroDivision(cfg)
    /\ \E gen \in GeneratedCurves : env' = Environment(cfg, Input, gen)
    /\ T' = ones(cfg.wall.N, cfg.wall.T0)
    /\ T_new' = T'
    /\ T_ceil' = ones(cfg.ceil.N, cfg.ceil.T0)
    /\ T_ceil_new' = T_ceil'
    /\ T_floor' = ones(cfg.floor.N, cfg.floor.T0)
    /\ T_floor_new' = T_floor'
    /\ T_history' = <<>> /\ T_ceil_history' = <<>> /\ T_floor_history' = <<>>
    /\ output_time_arr' = <<<<0, 1>>>>
    /\ output_gas_temp_arr' = <<T_f>>
    /\ output_char_depth_arr' = init_char_depth
    /\ output_charring_rate_arr' = <<0>>
    /\ output_MLR_arr' = <<0>>
    /\ output_HRR_wood_arr' = <<0>>
    /\ output_HRR_total_arr' = <<0>>
    /\ output_HRR_ext_arr' = <<0>>
    /\ MLR' = 0 /\ char_rho' = 0
    /\ obj' = [T |-> 1, T_new |-> ndarray_copy(1, 2),
               T_ceil |-> 3, T_ceil_new |-> ndarray_copy(3, 4),
               T_floor |-> 5, T_floor_new |-> ndarray_copy(5, 6)]
    /\ pc' = "loop"
    /\ UNCHANGED <<cfg, Input, i, T_f, HRR_content, q_rad_wall, HRR_time_arr, HRR_arr>>

----------------------------------------------------------------------------
(* main(): one iteration of the loop, main.py 212-296 *)

list_append_over_last(arr, x) == [arr EXCEPT ![Len(arr)] = x]

\* lines 269-270: list.append
list_append(arr, x) == Append(arr, x)

time_s_calc_off_by_one(n, dt) == Rat((n - 1) * dt[1], dt[2])

\* line 213
time_s_calc(n, dt) == Rat(n * dt[1], dt[2])

\* line 221: MLR wood_Hoc ceiling_area ceiling_exposed 1000
HRR_struct_calc(MLR_, wood_Hoc, ceiling_area, ceiling_exposed) ==
    ((((MLR_ * wood_Hoc) \div 1000) * ceiling_area) * ceiling_exposed) \div 100

\* line 220
HRR_char_reg_calc(char_rho_, Reg_rate, char_HoC, ceiling_area, ceiling_exposed) ==
    ((char_reg_HRR(char_rho_, Reg_rate, char_HoC) * ceiling_area) * ceiling_exposed) \div 100

HRR_wood_calc_stale(time_s, c, e, MLR_, char_rho_) ==
    IF RatLt(<<e.ceiling_ignition_time, 1>>, time_s)
    THEN HRR_struct_calc(output_MLR_arr[Max(1, Len(output_MLR_arr) - 1)],
                         c.wood_Hoc, e.ceiling_area, c.ceiling_exposed)
         + HRR_char_reg_calc(char_rho_, interp1d(e.char_reg_interp, time_s),
                             c.char_HoC, e.ceiling_area, c.ceiling_exposed)
    ELSE 0

HRR_wood_calc_from_ignition(time_s, c, e, MLR_, char_rho_) ==
    IF ~RatLt(time_s, <<e.ceiling_ignition_time, 1>>)
    THEN HRR_struct_calc(MLR_, c.wood_Hoc, e.ceiling_area, c.ceiling_exposed)
         + HRR_char_reg_calc(char_rho_, interp1d(e.char_reg_interp, time_s),
                             c.char_HoC, e.ceiling_area, c.ceiling_exposed)
    ELSE 0

\* lines 216-225, from the carried MLR and char density
HRR_wood_calc(time_s, c, e, MLR_, char_rho_) ==
    IF RatLt(<<e.ceiling_ignition_time, 1>>, time_s)
    THEN HRR_struct_calc(MLR_, c.wood_Hoc, e.ceiling_area, c.ceiling_exposed)
         + HRR_char_reg_calc(char_rho_, interp1d(e.char_reg_interp, time_s),
                             c.char_HoC, e.ceiling_area, c.ceiling_exposed)
    ELSE 0

HRR_total_calc_unclamped(HRR_wood, HRR_content_, lim) == Min(HRR_wood + HRR_content_, lim)

\* lines 228-229
HRR_total_calc(HRR_wood, HRR_content_, lim) == Max(Min(HRR_wood + HRR_content_, lim), 0)

HRR_ext_calc_of_total(HRR_wood, HRR_content_, lim) ==
    Max(0, HRR_total_calc(HRR_wood, HRR_content_, lim) - lim)

\* line 232
HRR_ext_calc(HRR_wood, HRR_content_, lim) == Max(0, (HRR_wood + HRR_content_) - lim)

\* line 266: max(293.0, T_f + dT_gas)
gas_temp_calc(Tf, dT_gas) == Max(2930, Tf + dT_gas)

charring_rate_calc_unguarded(time_s, cit, depth, n, dt) ==
    ((depth[n + 1] - depth[n]) * 60 * dt[2]) \div dt[1]

charring_rate_calc_swapped(time_s, cit, depth, n, dt) ==
    IF RatLt(time_s, <<cit, 1>>) THEN 0
    ELSE ((depth[n] - depth[n + 1]) * 60 * dt[2]) \div dt[1]

\* lines 281-284; depth[n + 1] is output_char_depth_arr[i]
charring_rate_calc(time_s, cit, depth, n, dt) ==
    IF RatLt(time_s, <<cit, 1>>) THEN 0
    ELSE ((depth[n + 1] - depth[n]) * 60 * dt[2]) \div dt[1]

char_rho_calc_unguarded(time_s, cit, depth, n, char_rho_) == char_density(depth[n + 1])

\* lines 281-286
char_rho_calc(time_s, cit, depth, n, char_rho_) ==
    IF RatLt(time_s, <<cit, 1>>) THEN char_rho_
    ELSE char_density(depth[n + 1])

\* line 290
MLR_calc(charring_rate, wood_density) == (charring_rate * wood_density) \div 60

\* lines 272-279: append the integral over the whole history, then smooth
\* the whole array
char_depth_calc(depth, gas_temp, time) ==
    gaussian_filter1d(
        Append(depth,
               char_depth_integral(gas_temp,
                   [j \in 1..Len(time) |-> Rat(time[j][1], time[j][2] * 60)])))

gas_step_stale_surfaces(c, e, Tf, HRR_conv, Ts_wall, Ts_ceil, Ts_floor) ==
    LET Q_o_c == q_o_c_calc(c.H_o, e.opening_area, c.c_p, Tf, c.T_inf)
        Q_o_r == q_o_r_calc(e.opening_area, e.Ef, Tf, 0)
        Q_w_walls == q_w(Tf, T[1], c.hc, c.E_net) * e.wall_area
        Q_w_ceiling == q_w(Tf, T_ceil[1], c.hc, c.E_net) * e.ceiling_area
        Q_w_floor == q_w(Tf, T_floor[1], c.hc, c.E_net) * e.floor_area
        Q_w_total == Q_w_walls + Q_w_ceiling + Q_w_floor
        Q_gas == gas_energy_balance(HRR_conv, Q_w_total, Q_o_c, Q_o_r)
        dT_gas == delta_gas_temp(Q_gas, e.dt, c.rho_air, c.c_p, e.gas_volume)
    IN  gas_temp_calc(Tf, dT_gas)

\* lines 253-266: the gas temperature after the step
gas_step(c, e, Tf, HRR_conv, Ts_wall, Ts_ceil, Ts_floor) ==
    LET Q_o_c == q_o_c_calc(c.H_o, e.opening_area, c.c_p, Tf, c.T_inf)
        Q_o_r == q_o_r_calc(e.opening_area, e.Ef, Tf, 0)
        Q_w_walls == q_w(Tf, Ts_wall, c.hc, c.E_net) * e.wall_area
        Q_w_ceiling == q_w(Tf, Ts_ceil, c.hc, c.E_net) * e.ceiling_area
        Q_w_floor == q_w(Tf, Ts_floor, c.hc, c.E_net) * e.floor_area
        Q_w_total == Q_w_walls + Q_w_ceiling + Q_w_floor
        Q_gas == gas_energy_balance(HRR_conv, Q_w_total, Q_o_c, Q_o_r)
        dT_gas == delta_gas_temp(Q_gas, e.dt, c.rho_air, c.c_p, e.gas_volume)
    IN  gas_temp_calc(Tf, dT_gas)

Step ==
    /\ pc = "loop"
    /\ i < Round(env.steps)
    /\ i < MaxSteps
    /\ LET n == i + 1
           time_s == time_s_calc(n, env.dt)
           content == interp1d(env.HRR_interp, time_s)
           HRR_wood == HRR_wood_calc(time_s, cfg, env, MLR, char_rho)
           HRR_total == HRR_total_calc(HRR_wood, content, env.HRR_VC_lim)
           HRR_ext == HRR_ext_calc(HRR_wood, content, env.HRR_VC_lim)
           HRR_conv == (HRR_total * cfg.conv_fract) \div 100
           q_rad == wall_rad_hf(env.gas_volume, 100 - cfg.conv_fract, HRR_conv)
           Tw == wall_call(obj.T = obj.T_new, T, T_new, env.alpha_wall, env.dt,
                     env.dx_wall, cfg.hc, T_f, cfg.E_net, cfg.sigma,
                     cfg.wall.rho, cfg.wall.c, cfg.wall.N, q_rad)
           Tc == wall_call(obj.T_ceil = obj.T_ceil_new, T_ceil, T_ceil_new,
                     env.alpha_ceil, env.dt,
                     env.dx_ceil, cfg.hc, T_f, cfg.E_net, cfg.sigma,
                     cfg.ceil.rho, cfg.ceil.c, cfg.ceil.N, q_rad)
           Tfl == wall_call(obj.T_floor = obj.T_floor_new, T_floor, T_floor_new,
                     env.alpha_floor, env.dt,
                     env.dx_floor, cfg.hc, T_f, cfg.E_net, cfg.sigma,
                     cfg.floor.rho, cfg.floor.c, cfg.floor.N, q_rad)
           Tf2 == gas_step(cfg, env, T_f, HRR_conv, Tw[1], Tc[1], Tfl[1])
           time2 == list_append(output_time_arr, time_s)
           gas2 == list_append(output_gas_temp_arr, Tf2)
           depth2 == char_depth_calc(output_char_depth_arr, gas2, time2)
           charring_rate == charring_rate_calc(time_s, env.ceiling_ignition_time,
                                               depth2, n, env.dt)
           MLR2 == MLR_calc(charring_rate, cfg.wood_density)
       IN  /\ i' = n
           /\ HRR_content' = content
           /\ q_rad_wall' = q_rad
           /\ T' = Tw /\ T_new' = Tw /\ T_history' = Append(T_history, Tw)
           /\ T_ceil' = Tc /\ T_ceil_new' = Tc
           /\ T_ceil_history' = Append(T_ceil_history, Tc)
           /\ T_floor' = Tfl /\ T_floor_new' = Tfl
           /\ T_floor_history' = Append(T_floor_history, Tfl)
           /\ T_f' = Tf2
           /\ output_time_arr' = time2
           /\ output_gas_temp_arr' = gas2
           /\ output_char_depth_arr' = depth2
           /\ char_rho' = char_rho_calc(time_s, env.ceiling_ignition_time,
                                        depth2, n, char_rho)
           /\ output_charring_rate_arr' = Append(output_charring_rate_arr, charring_rate)
           /\ MLR' = MLR2
           /\ output_MLR_arr' = Append(output_MLR_arr, MLR2)
           /\ output_HRR_wood_arr' = Append(output_HRR_wood_arr, HRR_wood)
           /\ output_HRR_total_arr' = Append(output_HRR_total_arr, HRR_total)
           /\ output_HRR_ext_arr' = Append(output_HRR_ext_arr, HRR_ext)
           /\ obj' = [obj EXCEPT !.T = ndarray_copy(obj.T_new, 6 * n + 1),
                                 !.T_ceil = ndarray_copy(obj.T_ceil_new, 6 * n + 3),
                                 !.T_floor = ndarray_copy(obj.T_floor_new, 6 * n + 5)]
    /\ UNCHANGED <<pc, cfg, Input, env, HRR_time_arr, HRR_arr>>

\* lines 298-314: seconds to minutes, kelvin to degrees Celsius
Finish ==
    /\ pc = "loop"
    /\ i >= Round(env.steps)
    /\ pc' = "done"
    /\ output_time_arr' =
         [j \in 1..Len(output_time_arr) |->
             Rat(output_time_arr[j][1], output_time_arr[j][2] * 60)]
    /\ output_gas_temp_arr' =
         [j \in 1..Len(output_gas_temp_arr) |-> output_gas_temp_arr[j] - 2730]
    /\ env' = [env EXCEPT !.HRR_time_arr =
                 [j \in 1..Len(env.HRR_time_arr) |-> Rat(env.HRR_time_arr[j], 60)]]
    /\ UNCHANGED <<obj, cfg, Input, i, T_f, T, T_new, T_history,
                   T_ceil, T_ceil_new, T_ceil_history,
                   T_floor, T_floor_new, T_floor_history, MLR, char_rho,
                   HRR_content, q_rad_wall, output_char_depth_arr,
                   output_charring_rate_arr, output_MLR_arr, output_HRR_wood_arr,
                   output_HRR_total_arr, output_HRR_ext_arr, HRR_time_arr, HRR_arr>>

Next == Setup \/ Step \/ Finish

Spec == Init /\ [][Next]_vars

----------------------------------------------------------------------------
(* main() called with a boundary the solver cannot discretise: a thickness
   or a diffusivity that is not positive, a single node *)

LiningNegL == Lining(1, 5, 1, 2930, -4, 3)      \* L < 0: dx = -2, dt = 5 s
LiningNegK == Lining(-1, 5, 1, 2930, 4, 3)      \* alpha < 0: dt = -5 s
LiningZeroL == Lining(1, 5, 1, 2930, 0, 3)      \* L = 0: dx = 0, dt = 0
LiningOneNode == Lining(1, 5, 1, 2930, 4, 1)    \* N = 1: dx = L / 0

Misconfigured(c) ==
    \E l \in {c.wall, c.ceil, c.floor} :
        l.L <= 0 \/ l.N <= 1 \/ l.k * l.rho * l.c <= 0

MisconfiguredBoundaries ==
    { <<LiningNegL, LiningC, LiningC>>, <<LiningC, LiningNegL, LiningA>>,
      <<LiningA, LiningC, LiningNegK>>, <<LiningZeroL, LiningC, LiningA>>,
      <<LiningC, LiningOneNode, LiningA>> }

InitMisconfigured ==
    /\ pc = "start"
    /\ \E c \in Configs, w \in MisconfiguredBoundaries :
          cfg = [c EXCEPT !.wall = w[1], !.ceil = w[2], !.floor = w[3]]
    /\ Input \in InputTables
    /\ env = <<>>
    /\ i = 0
    /\ T_f = cfg.T_f
    /\ T = <<>> /\ T_new = <<>> /\ T_history = <<>>
    /\ T_ceil = <<>> /\ T_ceil_new = <<>> /\ T_ceil_history = <<>>
    /\ T_floor = <<>> /\ T_floor_new = <<>> /\ T_floor_history = <<>>
    /\ MLR = 0 /\ char_rho = 0
    /\ HRR_content = 0 /\ q_rad_wall = 0
    /\ output_time_arr = <<>>
    /\ output_gas_temp_arr = <<>>
    /\ output_char_depth_arr = <<>>
    /\ output_charring_rate_arr = <<>>
    /\ output_MLR_arr = <<>>
    /\ output_HRR_wood_arr = <<>>
    /\ output_HRR_total_arr = <<>>
    /\ output_HRR_ext_arr = <<>>
    /\ HRR_time_arr = <<>> /\ HRR_arr = <<>>
    /\ obj = <<>>

\* ZeroDivisionError leaves main() before the loop
SetupRaises ==
    /\ pc = "start"
    /\ ZeroDivision(cfg)
    /\ pc' = "raised"
    /\ UNCHANGED <<obj, cfg, Input, env, i, T_f, T, T_new, T_history,
                   T_ceil, T_ceil_new, T_ceil_history,
                   T_floor, T_floor_new, T_floor_history, MLR, char_rho,
                   HRR_content, q_rad_wall,
                   output_time_arr, output_gas_temp_arr, output_char_depth_arr,
                   output_charring_rate_arr, output_MLR_arr, output_HRR_wood_arr,
                   output_HRR_total_arr, output_HRR_ext_arr, HRR_time_arr, HRR_arr>>

NextMisconfigured == Setup \/ SetupRaises \/ Step \/ Finish

SpecMisconfigured == InitMisconfigured /\ [][NextMisconfigured]_vars

----------------------------------------------------------------------------
(* The stand-alone solver loop, heat_transfer_1d_plus_qinc.py 112-143: one
   boundary, a fixed gas temperature Tg (held in T_f) and a fixed incident
   flux q_inc (held in q_rad_wall), the solver applied time after time *)

SolverConfigs ==
    { [wall |-> [l EXCEPT !.T0 = T0], hc |-> 10, E_net |-> 9, sigma |-> 567] :
      l \in {LiningA, LiningB, LiningC, LiningD, LiningE}, T0 \in {2930, 2980} }

SolverEnvironment(c) ==
    LET alpha == alpha_calc(c.wall.k, c.wall.rho, c.wall.c)
        s == ht_dx_dt_sub(c.wall.L, c.wall.N, alpha)
    IN  [alpha_wall |-> alpha, dx_wall |-> s[1], dt |-> s[2]]

InitSolver ==
    /\ pc = "wall"
    /\ cfg \in SolverConfigs
    /\ Input = <<>>
    /\ env = SolverEnvironment(cfg)
    /\ i = 0
    /\ T_f \in {2930, 2980, 10730}
    /\ q_rad_wall \in {0, 2000}
    /\ T = ones(cfg.wall.N, cfg.wall.T0)
    /\ T_new = T
    /\ T_history = <<>>
    /\ T_ceil = <<>> /\ T_ceil_new = <<>> /\ T_ceil_history = <<>>
    /\ T_floor = <<>> /\ T_floor_new = <<>> /\ T_floor_history = <<>>
    /\ MLR = 0 /\ char_rho = 0 /\ HRR_content = 0
    /\ output_time_arr = <<>>
    /\ output_gas_temp_arr = <<>>
    /\ output_char_depth_arr = <<>>
    /\ output_charring_rate_arr = <<>>
    /\ output_MLR_arr = <<>>
    /\ output_HRR_wood_arr = <<>>
    /\ output_HRR_total_arr = <<>>
    /\ output_HRR_ext_arr = <<>>
    /\ HRR_time_arr = <<>> /\ HRR_arr = <<>>
    /\ obj = [T |-> 1, T_new |-> ndarray_copy(1, 2)]

\* line 143
SolverCall ==
    /\ pc = "wall"
    /\ i < MaxCalls
    /\ LET Tw == wall_call(obj.T = obj.T_new, T, T_new, env.alpha_wall, env.dt,
                     env.dx_wall, cfg.hc, T_f, cfg.E_net, cfg.sigma,
                     cfg.wall.rho, cfg.wall.c, cfg.wall.N, q_rad_wall)
       IN  /\ T' = Tw
           /\ T_new' = Tw
           /\ T_history' = Append(T_history, Tw)
    /\ obj' = [obj EXCEPT !.T = ndarray_copy(obj.T_new, 2 * i + 3)]
    /\ i' = i + 1
    /\ UNCHANGED <<pc, cfg, Input, env, T_f, T_ceil, T_ceil_new, T_ceil_history,
                   T_floor, T_floor_new, T_floor_history, MLR, char_rho,
                   HRR_content, q_rad_wall,
                   output_time_arr, output_gas_temp_arr, output_char_depth_arr,
                   output_charring_rate_arr, output_MLR_arr, output_HRR_wood_arr,
                   output_HRR_total_arr, output_HRR_ext_arr, HRR_time_arr, HRR_arr>>

SpecSolver == InitSolver /\ [][SolverCall]_vars

----------------------------------------------------------------------------
(* time_vs_HRR, hrr.py 129-202: cfg holds its eight arguments, env the values
   of lines 151-175, i the growth loop's time_step, HRR_time_arr and HRR_arr
   the two lists *)

\* b, d, h, H_o, B_o [m]; HRRPUA [kW/m^2]; alpha [W/s^2]; FLED [MJ/m^2]
HRRInputs ==
    { [b |-> g[1], d |-> g[2], h |-> g[3], H_o |-> g[4], B_o |-> g[5],
       HRRPUA |-> 290, alpha |-> a, FLED |-> F] :
      g \in { <<2, 2, 2, 1, 1>>, <<3, 2, 2, 2, 1>>, <<5, 4, 2, 1, 1>>,
              <<6, 6, 2, 1, 1>> },
      a \in { 47, 188 },
      F \in { 1, 20, 780 } }

\* lines 151-175
HRREnvironment(c) ==
    LET opening_area == c.H_o * c.B_o
        wall_area == (2 * (c.b + c.d) * c.h) - opening_area
        ceiling_area == c.b * c.d
        floor_area == c.b * c.d
        total_surf_area == wall_area + ceiling_area + floor_area
        FLE == c.FLED * floor_area * 1000
        Q_fo == HRR_flash(total_surf_area, opening_area, c.H_o)
        Q_vc == vent_cont_HRR(opening_area, c.H_o)
        Q_fc == fuel_cont_HRR(floor_area, c.HRRPUA)
        Q_end_grow == Min(Q_fo, Min(Q_vc, Q_fc))
        Q_max == Min(Q_vc, Q_fc)
        t_grow == Time_to_grow(c.alpha, Q_end_grow)
        FLE_growth == FLE_grow(t_grow, c.alpha)
    IN  [ floor_area |-> floor_area, FLE |-> FLE,
          Q_fo |-> Q_fo, Q_vc |-> Q_vc, Q_fc |-> Q_fc,
          Q_end_grow |-> Q_end_grow, Q_max |-> Q_max,
          t_grow |-> t_grow, FLE_growth |-> FLE_growth,
          t_steady |-> steady_burn_time(FLE_growth, FLE, Q_max),
          t_decay |-> decay_time(FLE, Q_max) ]

InitHRR ==
    /\ pc = "hrr"
    /\ cfg \in HRRInputs
    /\ Input = <<>>
    /\ env = HRREnvironment(cfg)
    /\ i = 0
    /\ HRR_time_arr = <<>> /\ HRR_arr = <<>>
    /\ obj = <<>>
    /\ T_f = 0 /\ T = <<>> /\ T_new = <<>> /\ T_history = <<>>
    /\ T_ceil = <<>> /\ T_ceil_new = <<>> /\ T_ceil_history = <<>>
    /\ T_floor = <<>> /\ T_floor_new = <<>> /\ T_floor_history = <<>>
    /\ MLR = 0 /\ char_rho = 0 /\ HRR_content = 0 /\ q_rad_wall = 0
    /\ output_time_arr = <<>>
    /\ output_gas_temp_arr = <<>>
    /\ output_char_depth_arr = <<>>
    /\ output_charring_rate_arr = <<>>
    /\ output_MLR_arr = <<>>
    /\ output_HRR_wood_arr = <<>>
    /\ output_HRR_total_arr = <<>>
    /\ output_HRR_ext_arr = <<>>

\* lines 182-184: one pass of the growth loop, time_step = i
GrowthSample ==
    /\ pc = "hrr"
    /\ i < Round(<<env.t_grow, 10>>)
    /\ HRR_time_arr' = Append(HRR_time_arr, i * 10)
    /\ HRR_arr' = Append(HRR_arr, t_squared_fire(cfg.alpha, i))
    /\ i' = i + 1
    /\ UNCHANGED <<obj, pc, cfg, Input, env, T_f, T, T_new, T_history,
                   T_ceil, T_ceil_new, T_ceil_history,
                   T_floor, T_floor_new, T_floor_history, MLR, char_rho,
                   HRR_content, q_rad_wall,
                   output_time_arr, output_gas_temp_arr, output_char_depth_arr,
                   output_charring_rate_arr, output_MLR_arr, output_HRR_wood_arr,
                   output_HRR_total_arr, output_HRR_ext_arr>>

\* lines 186-202: the plateau point, the end of steady burning, the decay
\* endpoint and the point at 14400 s; then the function returns
CurveTail ==
    /\ pc = "hrr"
    /\ i >= Round(<<env.t_grow, 10>>)
    /\ HRR_time_arr' = HRR_time_arr \o
           << env.t_grow + 10, env.t_grow + env.t_steady,
              env.t_grow + env.t_steady + env.t_decay, 144000 >>
    /\ HRR_arr' = HRR_arr \o << env.Q_max, env.Q_max, 0, 0 >>
    /\ pc' = "returned"
    /\ UNCHANGED <<obj, cfg, Input, env, i, T_f, T, T_new, T_history,
                   T_ceil, T_ceil_new, T_ceil_history,
                   T_floor, T_floor_new, T_floor_history, MLR, char_rho,
                   HRR_content, q_rad_wall,
                   output_time_arr, output_gas_temp_arr, output_char_depth_arr,
                   output_charring_rate_arr, output_MLR_arr, output_HRR_wood_arr,
                   output_HRR_total_arr, output_HRR_ext_arr>>

NextHRR == GrowthSample \/ CurveTail

SpecHRR == InitHRR /\ [][NextHRR]_vars

\* the area under the curve through the points (t[j], q[j]), j in lo..hi, by
\* the trapezoid rule, in kJ (the sum of the segments, halving the range)
RECURSIVE Trapezoid(_, _, _, _)
Trapezoid(t, q, lo, hi) ==
    IF hi <= lo THEN 0
    ELSE IF hi = lo + 1
    THEN LET s == q[hi] + q[lo]
             w == t[hi] - t[lo]
             wh == w \div 1000
             wl == w % 1000
         IN  ((s * wh) \div 20)
             + (IF s < 100000 THEN (s * wl) \div 20000
                ELSE ((s \div 100) * wl) \div 200)
    ELSE LET mid == (lo + hi) \div 2
         IN  Trapezoid(t, q, lo, mid) + Trapezoid(t, q, mid, hi)

----------------------------------------------------------------------------
(* src/tests/charring.py: the char-depth integral on the standard fire curve,
   in exact integer arithmetic (temperatures in uK, times in whole minutes,
   depths in 10^-7 mm).  A number too large for one integer is the sequence
   of its base-10000 digits, lowest first, the empty sequence for 0. *)

RECURSIVE BigOf(_)
BigOf(n) == IF n = 0 THEN <<>> ELSE <<n % 10000>> \o BigOf(n \div 10000)

RECURSIVE BigScale(_, _, _)
\* a * m + carry for 0 < m < 10^5
BigScale(a, m, carry) ==
    IF a = <<>> THEN BigOf(carry)
    ELSE LET v == a[1] * m + carry
         IN  <<v % 10000>> \o BigScale(Tail(a), m, v \div 10000)

RECURSIVE BigAdd(_, _, _)
BigAdd(a, b, carry) ==
    IF a = <<>> /\ b = <<>> THEN BigOf(carry)
    ELSE LET v == (IF a = <<>> THEN 0 ELSE a[1])
                  + (IF b = <<>> THEN 0 ELSE b[1]) + carry
         IN  <<v % 10000>> \o BigAdd(IF a = <<>> THEN a ELSE Tail(a),
                                     IF b = <<>> THEN b ELSE Tail(b),
                                     v \div 10000)

RECURSIVE BigMul(_, _)
BigMul(a, b) ==
    IF a = <<>> \/ b = <<>> THEN <<>>
    ELSE LET rest == BigMul(a, Tail(b))
         IN  BigAdd(IF b[1] = 0 THEN <<>> ELSE BigScale(a, b[1], 0),
                    IF rest = <<>> THEN <<>> ELSE <<0>> \o rest, 0)

RECURSIVE BigLeFrom(_, _, _)
BigLeFrom(a, b, k) ==
    IF k = 0 THEN TRUE
    ELSE IF a[k] # b[k] THEN a[k] < b[k]
    ELSE BigLeFrom(a, b, k - 1)
BigLe(a, b) ==
    IF Len(a) # Len(b) THEN Len(a) < Len(b) ELSE BigLeFrom(a, b, Len(a))

BigPow5(a) ==
    LET a2 == BigMul(a, a)
    IN  BigMul(BigMul(a2, a2), a)
BigPow8(a) ==
    LET a2 == BigMul(a, a)
        a4 == BigMul(a2, a2)
    IN  BigMul(a4, a4)

\* 345 log10(8 t + 1) + 293 at t = 1..60 min, in uK
standard_fire_curve(time_min) ==
    <<
       622213666, 717504878, 775289303, 816887309, 849410431,
       876117648, 898776825, 918455108, 935846387, 951427332,
       965539552, 978436248, 990310308, 1001312063, 1011560953,
       1021153450, 1030168596, 1038671961, 1046718544, 1054354927,
       1061620913, 1068550777, 1075174246, 1081517272, 1087602640,
       1093450469, 1099078608, 1104502969, 1109737793, 1114795880,
       1119688775, 1124426928, 1129019827, 1133476113, 1137803680,
       1142009756, 1146100975, 1150083445, 1153962796, 1157744236,
       1161432585, 1165032316, 1168547588, 1171982273, 1175339985,
       1178624096, 1181837766, 1184983952, 1188065430, 1191084809,
       1194044541, 1196946939, 1199794181, 1202588324, 1205331313,
       1208024988, 1210671089, 1213271269, 1215827094, 1218340051
    >>[time_min]

\* the older rule of scipy.integrate for an even number of points: the mean
\* of Simpson's rule with the trapezoid on the last and on the first interval
simps12_weight_avg(n, j) ==
    IF n = 2 THEN 6
    ELSE IF n % 2 = 1
    THEN IF j = 1 \/ j = n THEN 4 ELSE IF j % 2 = 0 THEN 16 ELSE 8
    ELSE IF j = 1 \/ j = n THEN 5
    ELSE IF j = 2 \/ j = n - 1 THEN 13
    ELSE 12

\* 12/h times the weight scipy.integrate.simpson gives sample j of n equally
\* spaced ones (the rule of simps12, sample by sample)
simps12_weight(n, j) ==
    IF n = 2 THEN 6
    ELSE IF n % 2 = 1
    THEN IF j = 1 \/ j = n THEN 4 ELSE IF j % 2 = 0 THEN 16 ELSE 8
    ELSE IF j = n THEN 5
    ELSE IF j = n - 1 THEN 12
    ELSE IF j = n - 2 THEN 15
    ELSE IF j = 1 THEN 4 ELSE IF j % 2 = 0 THEN 16 ELSE 8

RECURSIVE simps12_exact(_, _, _)
\* 12/h simps(T_squared, time): the terms of samples lo..hi, in uK^2 (the
\* sum of the terms, halving the range)
simps12_exact(Temp, lo, hi) ==
    IF hi < lo THEN <<>>
    ELSE IF hi = lo
    THEN BigScale(BigMul(BigOf(Temp[lo]), BigOf(Temp[lo])),
                  simps12_weight(Len(Temp), lo), 0)
    ELSE LET mid == (lo + hi) \div 2
         IN  BigAdd(simps12_exact(Temp, lo, mid),
                    simps12_exact(Temp, mid + 1, hi), 0)

\* (12 h S)^5 for the integral S of line 32, h the spacing of time
simps_T_squared_pow(Temp, time) ==
    BigPow5(BigScale(simps12_exact(Temp, 1, Len(Temp)), time[2] - time[1], 0))

\* d^8 (12 * 1.35e5)^5 in the units of simps_T_squared_pow, for a depth d in
\* 10^-7 mm: d^8 162^5 10^24
d_char_pow(d) ==
    LET d8 == BigPow8(BigOf(d))
        k == BigScale(BigScale(BigScale(BigScale(BigScale(d8, 162, 0),
                                                 162, 0), 162, 0), 162, 0), 162, 0)
    IN  <<0, 0, 0, 0, 0, 0>> \o k

RECURSIVE d_char_search(_, _, _)
\* the largest d in lo..hi with d^1.6 <= S / 1.35e5
d_char_search(X5, lo, hi) ==
    IF lo >= hi THEN lo
    ELSE LET mid == lo + (hi - lo + 1) \div 2
         IN  IF BigLe(d_char_pow(mid), X5) THEN d_char_search(X5, mid, hi)
             ELSE d_char_search(X5, lo, mid - 1)

\* lines 30-35 without rounding: (simps(Temp^2, time) / 1.35e5)^(1/1.6)
\* rounded down to 10^-7 mm
char_depth_integral_exact(Temp, time) ==
    d_char_search(simps_T_squared_pow(Temp, time), 0, 2000000000)

\* the sample counts N of the test (60) and of an odd-length history
SampleCounts == { 59, 60 }

InitTest ==
    /\ pc = "test"
    /\ cfg \in [N : SampleCounts]
    /\ Input = <<>>
    /\ env = <<>>
    /\ i = 0
    /\ HRR_time_arr = <<>> /\ HRR_arr = <<>>
    /\ obj = <<>>
    /\ T_f = 0 /\ T = <<>> /\ T_new = <<>> /\ T_history = <<>>
    /\ T_ceil = <<>> /\ T_ceil_new = <<>> /\ T_ceil_history = <<>>
    /\ T_floor = <<>> /\ T_floor_new = <<>> /\ T_floor_history = <<>>
    /\ MLR = 0 /\ char_rho = 0 /\ HRR_content = 0 /\ q_rad_wall = 0
    /\ output_time_arr = <<>>
    /\ output_gas_temp_arr = <<>>
    /\ output_char_depth_arr = <<>>
    /\ output_charring_rate_arr = <<>>
    /\ output_MLR_arr = <<>>
    /\ output_HRR_wood_arr = <<>>
    /\ output_HRR_total_arr = <<>>
    /\ output_HRR_ext_arr = <<>>

\* lines 6-7: the next entry of time_list and of temp_list
SampleCurve ==
    /\ pc = "test"
    /\ i < cfg.N
    /\ i' = i + 1
    /\ output_time_arr' = Append(output_time_arr, i')
    /\ output_gas_temp_arr' = Append(output_gas_temp_arr, standard_fire_curve(i'))
    /\ UNCHANGED <<obj, pc, cfg, Input, env, HRR_time_arr, HRR_arr, T_f, T, T_new,
                   T_history, T_ceil, T_ceil_new, T_ceil_history,
                   T_floor, T_floor_new, T_floor_history, MLR, char_rho,
                   HRR_content, q_rad_wall, output_char_depth_arr,
                   output_charring_rate_arr, output_MLR_arr, output_HRR_wood_arr,
                   output_HRR_total_arr, output_HRR_ext_arr>>

\* lines 8-9: the call of char_depth_integral on the two lists
IntegralCall ==
    /\ pc = "test"
    /\ i = cfg.N
    /\ pc' = "integrated"
    /\ output_char_depth_arr'
         = <<char_depth_integral_exact(output_gas_temp_arr, output_time_arr)>>
    /\ UNCHANGED <<obj, cfg, Input, env, i, HRR_time_arr, HRR_arr, T_f, T, T_new,
                   T_history, T_ceil, T_ceil_new, T_ceil_history,
                   T_floor, T_floor_new, T_floor_history, MLR, char_rho,
                   HRR_content, q_rad_wall, output_time_arr, output_gas_temp_arr,
                   output_charring_rate_arr, output_MLR_arr, output_HRR_wood_arr,
                   output_HRR_total_arr, output_HRR_ext_arr>>

NextTest == SampleCurve \/ IntegralCall

SpecTest == InitTest /\ [][NextTest]_vars

----------------------------------------------------------------------------
(* zone_model_1/funcs/pd_7974_1_2019.py: calc_hrr and calc_hrr_fo_capped.
   HRR in W, fuel in kJ, durations in 0.1 s, alpha in W/s^2, Q_fd_decay in per
   cent.  Entry k of the time array np.linspace(0, t_total, num_points) is
   k t_total / (num_points - 1); HRR_time_arr holds k t_total and env.span
   holds num_points - 1, so that a time compares exactly with a duration. *)

\* 7.8 A_t + 378 A_v sqrt(H_v) kW
Q_fo_600(A_t, A_v, H_v) == 7800 * A_t + 378 * A_v * ISqrt(H_v * 1000000)

\* 1500 A_v sqrt(H_v) kW
eq_33_Q_dot_max(A_v, H_v) == 1500 * A_v * ISqrt(H_v * 1000000)

\* (Q_fd_decay Q_fd - (1/3) alpha t_v^3) / Q_dot_max, t_v = sqrt(Q_dot_max / alpha)
eq_36_t_steady(Q_fd, Q_dot_max, alpha, Q_fd_decay) ==
    LET t_v == ISqrt((Q_dot_max * 100) \div alpha)
    IN  ((((Q_fd_decay * Q_fd) \div 100) - FLE_grow(t_v, alpha)) * 100)
            \div (Q_dot_max \div 100)

\* 0.4 Q_fd / Q_dot_max
eq_37_t_decay(Q_fd, Q_dot_max) == (((4 * Q_fd) \div 10) * 100) \div (Q_dot_max \div 100)

\* lines 83 and 147: the growth duration, capped by flashover in
\* calc_hrr_fo_capped only
t_growth_of(fn, Q_dot_max, Q_dot_fo_max, alpha) ==
    IF fn = "calc_hrr_fo_capped"
    THEN ISqrt((Min(Q_dot_max, Q_dot_fo_max) * 100) \div alpha)
    ELSE ISqrt((Q_dot_max * 100) \div alpha)

\* the arguments: floor areas 1, 4 and 20 m^2 with 290 kW/m^2, fuel of 20 and
\* 400 MJ per m^2 of floor
PDInputs ==
    { [fn |-> f, Q_fd |-> F * g[1] * 1000, q_dot |-> 290, A_t |-> g[1],
       A_v |-> g[2], H_v |-> g[3], alpha |-> a, Q_fd_decay |-> p,
       num_points |-> n] :
      f \in { "calc_hrr", "calc_hrr_fo_capped" },
      g \in { <<1, 1, 1>>, <<4, 1, 1>>, <<20, 2, 1>> },
      F \in { 20, 400 },
      a \in { 47, 188 },
      p \in { 60, 80 },
      n \in { 13, 25 } }

\* lines 78-92 and 141-156
PDEnvironment(c) ==
    LET Q_dot_fo_max == Q_fo_600(c.A_t, c.A_v, c.H_v)
        Q_dot_vent_max == eq_33_Q_dot_max(c.A_v, c.H_v)
        Q_dot_fuel_max == c.A_t * c.q_dot * 1000
        Q_dot_max == Min(Q_dot_vent_max, Q_dot_fuel_max)
        t_growth == t_growth_of(c.fn, Q_dot_max, Q_dot_fo_max, c.alpha)
        t_steady == eq_36_t_steady(c.Q_fd, Q_dot_max, c.alpha, c.Q_fd_decay)
        t_decay == eq_37_t_decay(c.Q_fd, Q_dot_max)
    IN  [ Q_dot_fo_max |-> Q_dot_fo_max, Q_dot_max |-> Q_dot_max,
          t_growth |-> t_growth, t_steady |-> t_steady, t_decay |-> t_decay,
          t_total |-> t_growth + t_steady + t_decay,
          span |-> c.num_points - 1 ]

InitPD ==
    /\ pc = "pd"
    /\ cfg \in PDInputs
    /\ Input = <<>>
    /\ env = <<>>
    /\ i = 0
    /\ HRR_time_arr = <<>> /\ HRR_arr = <<>>
    /\ obj = <<>>
    /\ T_f = 0 /\ T = <<>> /\ T_new = <<>> /\ T_history = <<>>
    /\ T_ceil = <<>> /\ T_ceil_new = <<>> /\ T_ceil_history = <<>>
    /\ T_floor = <<>> /\ T_floor_new = <<>> /\ T_floor_history = <<>>
    /\ MLR = 0 /\ char_rho = 0 /\ HRR_content = 0 /\ q_rad_wall = 0
    /\ output_time_arr = <<>>
    /\ output_gas_temp_arr = <<>>
    /\ output_char_depth_arr = <<>>
    /\ output_charring_rate_arr = <<>>
    /\ output_MLR_arr = <<>>
    /\ output_HRR_wood_arr = <<>>
    /\ output_HRR_total_arr = <<>>
    /\ output_HRR_ext_arr = <<>>

\* lines 78-98 and 141-162: the durations, the time array and the zero array
Durations ==
    /\ pc = "pd"
    /\ pc' = "growth"
    /\ env' = PDEnvironment(cfg)
    /\ HRR_time_arr' = [j \in 1..cfg.num_points |-> (j - 1) * env'.t_total]
    /\ HRR_arr' = [j \in 1..cfg.num_points |-> 0]
    /\ UNCHANGED <<obj, cfg, Input, i, T_f, T, T_new, T_history,
                   T_ceil, T_ceil_new, T_ceil_history,
                   T_floor, T_floor_new, T_floor_history, MLR, char_rho,
                   HRR_content, q_rad_wall,
                   output_time_arr, output_gas_temp_arr, output_char_depth_arr,
                   output_charring_rate_arr, output_MLR_arr, output_HRR_wood_arr,
                   output_HRR_total_arr, output_HRR_ext_arr>>

\* Q_dot_max (1 - t_decay_phase / t_decay) at the time tk / span
decay_value(tk, e) ==
    LET phase == tk - (e.t_growth + e.t_steady) * e.span
        den == e.t_decay * e.span
    IN  (e.Q_dot_max \div 1000) * (((den - phase) * 10) \div (den \div 100))

\* lines 101-102 and 165-166: alpha t^2 where t < t_growth
GrowthMask ==
    /\ pc = "growth"
    /\ pc' = "close"
    /\ HRR_arr' = [j \in 1..Len(HRR_arr) |->
           IF HRR_time_arr[j] < env.t_growth * env.span
           THEN (cfg.alpha * (HRR_time_arr[j] \div env.span)
                           * (HRR_time_arr[j] \div env.span)) \div 100
           ELSE HRR_arr[j]]
    /\ UNCHANGED <<obj, cfg, Input, env, i, HRR_time_arr, T_f, T, T_new, T_history,
                   T_ceil, T_ceil_new, T_ceil_history,
                   T_floor, T_floor_new, T_floor_history, MLR, char_rho,
                   HRR_content, q_rad_wall,
                   output_time_arr, output_gas_temp_arr, output_char_depth_arr,
                   output_charring_rate_arr, output_MLR_arr, output_HRR_wood_arr,
                   output_HRR_total_arr, output_HRR_ext_arr>>

\* lines 105-107 and 169-171: Q_dot_max where t is t_growth
AtGrowth ==
    /\ pc = "close"
    /\ pc' = "steady"
    /\ HRR_arr' = [j \in 1..Len(HRR_arr) |->
           IF HRR_time_arr[j] = env.t_growth * env.span THEN env.Q_dot_max
           ELSE HRR_arr[j]]
    /\ UNCHANGED <<obj, cfg, Input, env, i, HRR_time_arr, T_f, T, T_new, T_history,
                   T_ceil, T_ceil_new, T_ceil_history,
                   T_floor, T_floor_new, T_floor_history, MLR, char_rho,
                   HRR_content, q_rad_wall,
                   output_time_arr, output_gas_temp_arr, output_char_depth_arr,
                   output_charring_rate_arr, output_MLR_arr, output_HRR_wood_arr,
                   output_HRR_total_arr, output_HRR_ext_arr>>

\* lines 110-111 and 174-175: Q_dot_max where t_growth < t <= t_growth + t_steady
SteadyMask ==
    /\ pc = "steady"
    /\ pc' = "decay"
    /\ HRR_arr' = [j \in 1..Len(HRR_arr) |->
           IF /\ HRR_time_arr[j] > env.t_growth * env.span
              /\ HRR_time_arr[j] <= (env.t_growth + env.t_steady) * env.span
           THEN env.Q_dot_max
           ELSE HRR_arr[j]]
    /\ UNCHANGED <<obj, cfg, Input, env, i, HRR_time_arr, T_f, T, T_new, T_history,
                   T_ceil, T_ceil_new, T_ceil_history,
                   T_floor, T_floor_new, T_floor_history, MLR, char_rho,
                   HRR_content, q_rad_wall,
                   output_time_arr, output_gas_temp_arr, output_char_depth_arr,
                   output_charring_rate_arr, output_MLR_arr, output_HRR_wood_arr,
                   output_HRR_total_arr, output_HRR_ext_arr>>

\* lines 114-116 and 178-180: the linear ramp where t > t_growth + t_steady
DecayMask ==
    /\ pc = "decay"
    /\ pc' = "clip"
    /\ HRR_arr' = [j \in 1..Len(HRR_arr) |->
           IF HRR_time_arr[j] > (env.t_growth + env.t_steady) * env.span
           THEN decay_value(HRR_time_arr[j], env)
           ELSE HRR_arr[j]]
    /\ UNCHANGED <<obj, cfg, Input, env, i, HRR_time_arr, T_f, T, T_new, T_history,
                   T_ceil, T_ceil_new, T_ceil_history,
                   T_floor, T_floor_new, T_floor_history, MLR, char_rho,
                   HRR_content, q_rad_wall,
                   output_time_arr, output_gas_temp_arr, output_char_depth_arr,
                   output_charring_rate_arr, output_MLR_arr, output_HRR_wood_arr,
                   output_HRR_total_arr, output_HRR_ext_arr>>

\* lines 117 and 181: negative values become 0; then the function returns
ClipNegative ==
    /\ pc = "clip"
    /\ pc' = "hrr_returned"
    /\ HRR_arr' = [j \in 1..Len(HRR_arr) |->
           IF HRR_arr[j] < 0 THEN 0 ELSE HRR_arr[j]]
    /\ UNCHANGED <<obj, cfg, Input, env, i, HRR_time_arr, T_f, T, T_new, T_history,
                   T_ceil, T_ceil_new, T_ceil_history,
                   T_floor, T_floor_new, T_floor_history, MLR, char_rho,
                   HRR_content, q_rad_wall,
                   output_time_arr, output_gas_temp_arr, output_char_depth_arr,
                   output_charring_rate_arr, output_MLR_arr, output_HRR_wood_arr,
                   output_HRR_total_arr, output_HRR_ext_arr>>

NextPD == Durations \/ GrowthMask \/ AtGrowth \/ SteadyMask \/ DecayMask \/ ClipNegative

SpecPD == InitPD /\ [][NextPD]_vars

----------------------------------------------------------------------------
(* Properties *)

InRun == pc \in {"loop", "done"}

\* C1: at every step the recorded total internal HRR lies between 0 and the
\* ventilation cap, whatever the content and the wood HRR of the step are
C1_TotalWithinCap ==
    InRun =>
        \A j \in 1..Len(output_HRR_total_arr) :
            /\ 0 <= output_HRR_total_arr[j]
            /\ output_HRR_total_arr[j] <= env.HRR_VC_lim

\* a run with a step above the cap, then a step whose extrapolated content
\* HRR is negative
C1_Witness ==
    /\ pc = "loop" /\ i >= 2
    /\ \E j \in 1..Len(output_HRR_ext_arr) : output_HRR_ext_arr[j] > 0
    /\ HRR_content < 0
    /\ Last(output_HRR_total_arr) = 0

\* C2: at every step the recorded external HRR is exactly
\* max(0, content + wood - cap), content and wood being the values the total
\* of the same step is formed from
C2_ExternalIsExcess ==
    (pc = "loop" /\ i >= 1) =>
        /\ Last(output_HRR_ext_arr)
             = Max(0, (Last(output_HRR_wood_arr) + HRR_content) - env.HRR_VC_lim)
        /\ Last(output_HRR_total_arr)
             = Max(Min(Last(output_HRR_wood_arr) + HRR_content, env.HRR_VC_lim), 0)

C2_Witness ==
    /\ pc = "loop" /\ i >= 1
    /\ Last(output_HRR_wood_arr) > 0
    /\ Last(output_HRR_ext_arr) > 0

\* C3: every entry of the gas-temperature history is at least the configured
\* ambient temperature T_inf
C3_GasNotBelowAmbient ==
    pc = "loop" =>
        \A j \in 1..Len(output_gas_temp_arr) : output_gas_temp_arr[j] >= cfg.T_inf

\* C4: after initialisation and after every iteration the eight output
\* sequences all have length i + 1
C4_SameLength ==
    InRun =>
        /\ Len(output_time_arr) = i + 1
        /\ Len(output_gas_temp_arr) = i + 1
        /\ Len(output_char_depth_arr) = i + 1
        /\ Len(output_charring_rate_arr) = i + 1
        /\ Len(output_MLR_arr) = i + 1
        /\ Len(output_HRR_wood_arr) = i + 1
        /\ Len(output_HRR_total_arr) = i + 1
        /\ Len(output_HRR_ext_arr) = i + 1

C4_Witness == pc = "loop" /\ i >= 3 /\ Len(output_char_depth_arr) = 4

\* C5: the time sequence starts at 0, entry j is j dt (in minutes once
\* returned), and it is strictly increasing
C5_TimeIncreasing ==
    InRun =>
        /\ output_time_arr[1] = <<0, 1>>
        /\ \A j \in 2..Len(output_time_arr) :
              /\ RatLt(output_time_arr[j - 1], output_time_arr[j])
              /\ output_time_arr[j]
                   = Rat((j - 1) * env.dt[1],
                         env.dt[2] * (IF pc = "done" THEN 60 ELSE 1))

C5_Witness == pc = "done" /\ Len(output_time_arr) >= 4 /\ env.dt[2] > 1

\* C6: the wood HRR of a step is computed from the mass-loss rate and the
\* char density stored at the end of the step before (0 at first), and the
\* carried mass-loss rate is the one recorded for that step
C6_LaggedFeedback ==
    [][(pc = "loop" /\ i' = i + 1) =>
         /\ MLR = Last(output_MLR_arr)
         /\ Last(output_HRR_wood_arr')
              = IF RatLt(<<env.ceiling_ignition_time, 1>>, Last(output_time_arr'))
                THEN HRR_struct_calc(Last(output_MLR_arr), cfg.wood_Hoc,
                                     env.ceiling_area, cfg.ceiling_exposed)
                     + HRR_char_reg_calc(char_rho,
                           interp1d(env.char_reg_interp, Last(output_time_arr')),
                           cfg.char_HoC, env.ceiling_area, cfg.ceiling_exposed)
                ELSE 0]_vars

C6_Witness ==
    /\ pc = "loop" /\ i >= 3
    /\ Last(output_HRR_wood_arr) > 0
    /\ output_MLR_arr[i] > 0
    /\ output_MLR_arr[i] # output_MLR_arr[i - 1]

\* C7: the charring rate and the mass-loss rate recorded for a step whose
\* time is below the lining-ignition time are exactly 0
C7_NoCharringBeforeIgnition ==
    pc = "loop" =>
        /\ \A j \in 2..Len(output_time_arr) :
              RatLt(output_time_arr[j], <<env.ceiling_ignition_time, 1>>) =>
                 /\ output_charring_rate_arr[j] = 0
                 /\ output_MLR_arr[j] = 0
        /\ (i >= 1 /\ RatLt(Last(output_time_arr), <<env.ceiling_ignition_time, 1>>))
              => MLR = 0

C7_Witness ==
    /\ pc = "loop" /\ i >= 2
    /\ RatLt(Last(output_time_arr), <<env.ceiling_ignition_time, 1>>)
    /\ output_char_depth_arr[i + 1] # output_char_depth_arr[i]

\* 4 alpha dt <= dx^2 for the lining l, dx = L / (N - 1)
Stable(l, dt) ==
    RatLe(RatMul(<<4, 1>>, RatMul(Rat(l.k, l.rho * l.c), dt)),
          RatMul(Rat(l.L, l.N - 1), Rat(l.L, l.N - 1)))

\* C8: dt is the minimum of the three per-boundary step sizes and satisfies
\* alpha dt / dx^2 <= 0.25 for the wall, the ceiling and the floor
C8_StableStep ==
    InRun =>
        /\ env.dt \in {env.dt1, env.dt2, env.dt3}
        /\ RatLe(env.dt, env.dt1) /\ RatLe(env.dt, env.dt2) /\ RatLe(env.dt, env.dt3)
        /\ Stable(cfg.wall, env.dt)
        /\ Stable(cfg.ceil, env.dt)
        /\ Stable(cfg.floor, env.dt)

C8_Witness ==
    /\ pc = "loop" /\ i >= 1
    /\ env.dt1 # env.dt2 /\ env.dt2 # env.dt3 /\ env.dt1 # env.dt3
    /\ env.dt = env.dt2

\* C9: with a uniform field at T0, the gas at T0 and no incident flux, the
\* solver returns the field unchanged, call after call
C9_Equilibrium ==
    (pc = "wall" /\ cfg.wall.T0 = T_f /\ q_rad_wall = 0) =>
        /\ T = ones(cfg.wall.N, cfg.wall.T0)
        /\ \A j \in 1..Len(T_history) : T_history[j] = T

C9_Witness ==
    /\ pc = "wall" /\ cfg.wall.T0 = T_f /\ q_rad_wall = 0
    /\ i >= 3 /\ cfg.wall.N >= 4

\* C10: the cap is 1130 (H_o B_o) sqrt(H_o) kW, fixed before the loop, and
\* it is the value that limits the total HRR at every step
C10_VentilationCap ==
    InRun =>
        /\ env.HRR_VC_lim = 1130 * (cfg.H_o * cfg.B_o) * SqrtMilli(cfg.H_o)
        /\ \A j \in 1..Len(output_HRR_total_arr) :
              /\ output_HRR_total_arr[j]
                   <= 1130 * (cfg.H_o * cfg.B_o) * SqrtMilli(cfg.H_o)
              /\ output_HRR_ext_arr[j] > 0 =>
                   output_HRR_total_arr[j]
                     = 1130 * (cfg.H_o * cfg.B_o) * SqrtMilli(cfg.H_o)

C10_Witness ==
    /\ pc = "loop" /\ i >= 2 /\ cfg.H_o = 2
    /\ Last(output_HRR_ext_arr) > 0
    /\ output_HRR_ext_arr[i] > 0

\* C11: the time values of the control points time_vs_HRR returns are strictly
\* increasing, from the first growth sample to the point at 14400 s
C11_CurveOrdered ==
    pc = "returned" =>
        \A j \in 2..Len(HRR_time_arr) : HRR_time_arr[j - 1] < HRR_time_arr[j]

\* C12: when the fire load covers the growth phase (t_steady >= 0), the area
\* under the returned curve is within 5% of FLED * floor_area
C12_EnergyRoundTrip ==
    (pc = "returned" /\ env.t_steady >= 0) =>
        LET area == Trapezoid(HRR_time_arr, HRR_arr, 1, Len(HRR_arr))
        IN  /\ 20 * (area - env.FLE) <= env.FLE
            /\ 20 * (env.FLE - area) <= env.FLE

C12_Witness ==
    /\ pc = "returned" /\ env.t_steady > 10
    /\ env.Q_end_grow < env.Q_max
    /\ Len(HRR_arr) > 50
    /\ Trapezoid(HRR_time_arr, HRR_arr, 1, Len(HRR_arr)) # env.FLE

\* C14: from the lining-ignition time on, the char depth sequence does not
\* decrease from one step to the next and no recorded charring rate is
\* negative
C14_CharDepthMonotone ==
    pc = "loop" =>
        \A j \in 2..Len(output_time_arr) :
            ~RatLt(output_time_arr[j], <<env.ceiling_ignition_time, 1>>) =>
                /\ output_char_depth_arr[j - 1] <= output_char_depth_arr[j]
                /\ output_charring_rate_arr[j] >= 0

\* a step at or after the lining-ignition time during which the gas has
\* cooled, with the depth still growing
C14_Witness ==
    /\ pc = "loop" /\ i >= 4
    /\ \E j \in 3..Len(output_gas_temp_arr) :
          /\ ~RatLt(output_time_arr[j], <<env.ceiling_ignition_time, 1>>)
          /\ output_gas_temp_arr[j] < output_gas_temp_arr[j - 1]
          /\ output_char_depth_arr[j - 1] < output_char_depth_arr[j]
          /\ output_charring_rate_arr[j] > 0

\* C15: with a boundary whose thickness or diffusivity is not positive, or
\* without nodes to step, main() runs no loop step and returns no series
C15_FailsBeforeLoop ==
    Misconfigured(cfg) => (i = 0 /\ pc # "done")

\* the line through the control points number j and j + 1 of the table, at
\* the time t, in W
TableLine(j, t) ==
    LET x1 == Input.Time_s[j]
        x2 == Input.Time_s[j + 1]
        y1 == Input.HRR_kW[j] * 1000
        y2 == Input.HRR_kW[j + 1] * 1000
    IN  y1 + (((y2 - y1) * (t[1] - x1 * t[2])) \div ((x2 - x1) * t[2]))

\* C16: a step whose time lies before the first or after the last control
\* point of the HRR table is completed, and its content HRR is the value at
\* that time of the line through the two nearest control points
C16_LookupExtrapolates ==
    (pc = "loop" /\ i >= 1) =>
        LET t == Last(output_time_arr)
            n == Len(Input.Time_s)
        IN  /\ t = Rat(i * env.dt[1], env.dt[2])
            /\ Len(output_HRR_total_arr) = i + 1
            /\ RatLt(t, <<Input.Time_s[1], 1>>) => HRR_content = TableLine(1, t)
            /\ RatLt(<<Input.Time_s[n], 1>>, t) => HRR_content = TableLine(n - 1, t)

\* a run that has looked up a time before the table and now one after it
C16_Witness ==
    /\ pc = "loop" /\ i >= 2
    /\ RatLt(output_time_arr[2], <<Input.Time_s[1], 1>>)
    /\ RatLt(<<Last(Input.Time_s), 1>>, Last(output_time_arr))
    /\ HRR_content < 0

\* C17: the curve looked up, the run end time and the three timing markers
\* the loop uses are the supplied ones: they are the same whatever
\* RHR.time_vs_hrr generated
C17_MarkersSupplied ==
    pc = "loop" =>
        \A g \in GeneratedCurves :
            LET e == Environment(cfg, Input, g)
            IN  /\ e.HRR_interp = env.HRR_interp
                /\ e.end_time = env.end_time
                /\ e.start_dec = env.start_dec
                /\ e.end_dec = env.end_dec
                /\ e.ceiling_ignition_time = env.ceiling_ignition_time

\* C18: the loop is a count to a number fixed beforehand.  Every step raises
\* i by one and leaves the step size and the step count alone, i never
\* passes the integer nearest to end_time / dt (end_time the last time of the
\* HRR table), the loop is left only for the return, and at the return i is
\* that integer and every output sequence has i + 1 entries
C18_FixedHorizon ==
    /\ [](pc = "done" =>
            LET off == i * env.dt[1] - Last(Input.Time_s) * env.dt[2]
            IN  /\ 2 * off <= env.dt[1]
                /\ -2 * off <= env.dt[1]
                /\ Len(output_time_arr) = i + 1
                /\ Len(output_HRR_total_arr) = i + 1
                /\ Len(output_char_depth_arr) = i + 1)
    /\ [][pc = "loop" =>
            /\ env'.steps = env.steps /\ env'.dt = env.dt
            /\ \/ /\ pc' = "loop" /\ i' = i + 1
                  /\ 2 * (i' * env.dt[1] - Last(Input.Time_s) * env.dt[2]) <= env.dt[1]
               \/ /\ pc' = "done" /\ i' = i]_vars

\* a finished run whose step count was rounded up, the last step lying
\* after the end of the table
C18_Witness ==
    /\ pc = "done" /\ i >= 6
    /\ i * env.dt[1] > Last(Input.Time_s) * env.dt[2]

\* C19: the wood HRR recorded for a step whose time is not after the
\* lining-ignition time is 0, and at such a time lines 216-225 give 0 for
\* any carried mass-loss rate and char density
C19_NoWoodHRRUntilIgnition ==
    pc = "loop" =>
        \A j \in 2..Len(output_time_arr) :
            ~RatLt(<<env.ceiling_ignition_time, 1>>, output_time_arr[j]) =>
                /\ output_HRR_wood_arr[j] = 0
                /\ \A m \in {0, 5, 12}, r \in {0, 300, 1000000} :
                      HRR_wood_calc(output_time_arr[j], cfg, env, m, r) = 0

\* a step exactly at the lining-ignition time, charring there, and wood
\* burning in the step after
C19_Witness ==
    /\ pc = "loop" /\ i >= 2
    /\ output_time_arr[i] = <<env.ceiling_ignition_time, 1>>
    /\ output_MLR_arr[i] > 0
    /\ output_HRR_wood_arr[i] = 0
    /\ output_HRR_wood_arr[i + 1] > 0

\* the gas temperature lines 253-266 give from the gas temperature Tf and
\* the three exposed-surface temperatures
GasAfter(Tf, HRR_conv, Ts_wall, Ts_ceil, Ts_floor) ==
    LET Q_w_total == q_w(Tf, Ts_wall, cfg.hc, cfg.E_net) * env.wall_area
                     + q_w(Tf, Ts_ceil, cfg.hc, cfg.E_net) * env.ceiling_area
                     + q_w(Tf, Ts_floor, cfg.hc, cfg.E_net) * env.floor_area
        Q_gas == HRR_conv - (Q_w_total
                             + q_o_c_calc(cfg.H_o, env.opening_area, cfg.c_p, Tf, cfg.T_inf)
                             + q_o_r_calc(env.opening_area, env.Ef, Tf, 0))
    IN  Max(2930, Tf + delta_gas_temp(Q_gas, env.dt, cfg.rho_air, cfg.c_p, env.gas_volume))

\* C20: in a step each boundary field is advanced with the gas temperature
\* of the step before; the losses use the surface temperatures just
\* computed and that same old gas temperature; the new gas temperature is
\* what is appended, and the char depth is recomputed from the histories
\* that already hold the new time and gas temperature
C20_StepOrder ==
    [][(pc = "loop" /\ i' = i + 1) =>
         LET HRR_conv == (Last(output_HRR_total_arr') * cfg.conv_fract) \div 100
         IN  /\ T' = update_wall_temp_array(T, T_new, env.alpha_wall, env.dt,
                         env.dx_wall, cfg.hc, T_f, cfg.E_net, cfg.sigma,
                         cfg.wall.rho, cfg.wall.c, cfg.wall.N, q_rad_wall')
             /\ T_ceil' = update_wall_temp_array(T_ceil, T_ceil_new, env.alpha_ceil,
                         env.dt, env.dx_ceil, cfg.hc, T_f, cfg.E_net, cfg.sigma,
                         cfg.ceil.rho, cfg.ceil.c, cfg.ceil.N, q_rad_wall')
             /\ T_floor' = update_wall_temp_array(T_floor, T_floor_new, env.alpha_floor,
                         env.dt, env.dx_floor, cfg.hc, T_f, cfg.E_net, cfg.sigma,
                         cfg.floor.rho, cfg.floor.c, cfg.floor.N, q_rad_wall')
             /\ T_f' = GasAfter(T_f, HRR_conv, T'[1], T_ceil'[1], T_floor'[1])
             /\ output_time_arr' = Append(output_time_arr, Rat(i' * env.dt[1], env.dt[2]))
             /\ output_gas_temp_arr' = Append(output_gas_temp_arr, T_f')
             /\ output_char_depth_arr'
                  = char_depth_calc(output_char_depth_arr, output_gas_temp_arr',
                                    output_time_arr')]_vars

\* a step in which the three surfaces and the gas have all changed
C20_Witness ==
    /\ pc = "loop" /\ i >= 3
    /\ T_history[i][1] # T_history[i - 1][1]
    /\ T_ceil_history[i][1] # T_ceil_history[i - 1][1]
    /\ T_floor_history[i][1] # T_floor_history[i - 1][1]
    /\ output_gas_temp_arr[i + 1] # output_gas_temp_arr[i]
    /\ output_gas_temp_arr[i] # output_gas_temp_arr[i - 1]

\* C13: char_depth_integral returns the depth d with d^1.6 = S / 1.35e5, S
\* the Simpson integral of Temp^2 over time (d rounded down to 10^-7 mm);
\* on the 60 one-minute samples of the standard fire curve d is within
\* 10^-6 mm of 49.617272031154265 mm
C13_CharDepthFixture ==
    pc = "integrated" =>
        LET d == output_char_depth_arr[1]
            X5 == simps_T_squared_pow(output_gas_temp_arr, output_time_arr)
        IN  /\ BigLe(d_char_pow(d), X5)
            /\ ~BigLe(d_char_pow(d + 1), X5)
            /\ cfg.N = 60 => (496172711 <= d /\ d <= 496172729)

\* the call on the 60 samples t = 1..60 has returned
C13_Witness ==
    /\ pc = "integrated" /\ cfg.N = 60
    /\ output_time_arr[60] = 60
    /\ output_gas_temp_arr[60] = standard_fire_curve(60)
    /\ output_char_depth_arr[1] > 0

\* C22: the incident radiant flux of a step is the remaining fraction
\* (1 - conv_fract) of the total HRR of that step over the surface of the
\* sphere of the gas volume
C22_RadiantFromRemainder ==
    (pc = "loop" /\ i >= 1) =>
        q_rad_wall = wall_rad_hf(env.gas_volume, 100 - cfg.conv_fract,
                                 Last(output_HRR_total_arr))

\* C23: Q_end_grow is the least of the flashover, ventilation-controlled and
\* fuel-controlled HRR and Q_max the lesser of the last two, so
\* Q_end_grow <= Q_max; growth sample j of the curve is alpha (j-1)^2 at
\* time j-1 s and lies below Q_end_grow; no point of the curve exceeds Q_max
C23_GrowthBelowPlateau ==
    (pc \in {"hrr", "returned"}) =>
        /\ env.Q_end_grow <= env.Q_fo /\ env.Q_end_grow <= env.Q_vc
        /\ env.Q_end_grow <= env.Q_fc
        /\ env.Q_end_grow \in {env.Q_fo, env.Q_vc, env.Q_fc}
        /\ env.Q_max <= env.Q_vc /\ env.Q_max <= env.Q_fc
        /\ env.Q_max \in {env.Q_vc, env.Q_fc}
        /\ env.Q_end_grow <= env.Q_max
        /\ \A j \in 1..i :
              /\ HRR_time_arr[j] = (j - 1) * 10
              /\ HRR_arr[j] = cfg.alpha * (j - 1) * (j - 1)
              /\ HRR_arr[j] < env.Q_end_grow
        /\ \A j \in 1..Len(HRR_arr) : HRR_arr[j] <= env.Q_max

\* a returned curve whose growth ends at flashover, below the plateau, and
\* whose last growth sample is the one second before the rounded growth time
C23_Witness ==
    /\ pc = "returned"
    /\ env.Q_end_grow = env.Q_fo /\ env.Q_end_grow < env.Q_max
    /\ i >= 3 /\ i * 10 > env.t_grow
    /\ HRR_arr[i] > 0 /\ HRR_arr[i + 1] = env.Q_max

\* the energy in kJ released at Q watts over t tenths of a second
PhaseEnergy(Q, t) == ((Q \div 100) * t) \div 100

\* the energy in kJ that rounding a duration to a tenth of a second, and a
\* fraction of the fire load to the kJ, can move
PhaseTolerance(Q) == Q \div 10000 + 2

Near(x, y, tol) == x - y <= tol /\ y - x <= tol

\* C24 as stated: for one fraction f (in per cent) the steady phase releases
\* f FLE less the growth energy and the decay duration is (1 - f) FLE / Q_max
C24_ComplementaryFractions ==
    pc = "returned" =>
        \E f \in 0..100 :
            /\ Near(PhaseEnergy(env.Q_max, env.t_steady) + env.FLE_growth,
                    (env.FLE \div 100) * f, PhaseTolerance(env.Q_max))
            /\ Near(PhaseEnergy(env.Q_max, env.t_decay),
                    (env.FLE \div 100) * (100 - f), PhaseTolerance(env.Q_max))

\* C24 amended: with f = 0.7 the steady duration is (f FLE - growth energy) /
\* Q_max and the decay duration is 2 (1 - f) FLE / Q_max, so that the linear
\* ramp, of area Q_max t_decay / 2, releases the remaining (1 - f) FLE
C24_DecayRampComplement ==
    pc = "returned" =>
        /\ Near(PhaseEnergy(env.Q_max, env.t_steady) + env.FLE_growth,
                (env.FLE \div 100) * 70, PhaseTolerance(env.Q_max))
        /\ Near(PhaseEnergy(env.Q_max, env.t_decay),
                2 * (env.FLE \div 100) * 30, 2 * PhaseTolerance(env.Q_max))

\* a returned curve with a steady phase, whose tenth of the fire load is
\* more than rounding can move
C24_Witness ==
    /\ pc = "returned"
    /\ env.t_steady > 0 /\ env.t_decay > 0
    /\ env.FLE \div 10 > 4 * PhaseTolerance(env.Q_max)

\* C25: a curve returned by calc_hrr or calc_hrr_fo_capped has the fuel of
\* the growth phase it uses, (1/3) alpha t_growth^3, plus the fuel of the
\* steady phase, Q_dot_max t_steady, equal to Q_fd_decay Q_fd, and every
\* value of it is in 0..Q_dot_max
C25_GrowthAndSteadyFuel ==
    pc = "hrr_returned" =>
        /\ Near(FLE_grow(env.t_growth, cfg.alpha)
                  + PhaseEnergy(env.Q_dot_max, env.t_steady),
                (cfg.Q_fd_decay * cfg.Q_fd) \div 100,
                PhaseTolerance(env.Q_dot_max))
        /\ \A j \in 1..Len(HRR_arr) : 0 <= HRR_arr[j] /\ HRR_arr[j] <= env.Q_dot_max

\* C27: a step of the loop appends one entry to the time history and one to
\* the gas-temperature history and leaves every earlier entry as it was
C27_HistoriesAppendOnly ==
    [][(pc = "loop" /\ pc' = "loop") =>
         /\ Len(output_time_arr') = Len(output_time_arr) + 1
         /\ Len(output_gas_temp_arr') = Len(output_gas_temp_arr) + 1
         /\ \A j \in 1..Len(output_time_arr) :
               output_time_arr'[j] = output_time_arr[j]
         /\ \A j \in 1..Len(output_gas_temp_arr) :
               output_gas_temp_arr'[j] = output_gas_temp_arr[j]]_vars

\* four steps taken, the gas temperature different at each of the last three
C27_Witness ==
    /\ pc = "loop" /\ i >= 4
    /\ Len(output_time_arr) = i + 1 /\ Len(output_gas_temp_arr) = i + 1
    /\ output_gas_temp_arr[i + 1] # output_gas_temp_arr[i]
    /\ output_gas_temp_arr[i] # output_gas_temp_arr[i - 1]
    /\ output_gas_temp_arr[1] = cfg.T_f

\* C28: the total and the external HRR recorded for a step add up to the
\* non-negative part of the content HRR plus the wood HRR of that step
C28_CapPartitionsDemand ==
    (pc = "loop" /\ i >= 1) =>
        Last(output_HRR_total_arr) + Last(output_HRR_ext_arr)
            = Max(0, HRR_content + Last(output_HRR_wood_arr))

\* a step whose demand is above the ventilation limit, with burning wood
C28_Witness ==
    /\ pc = "loop" /\ i >= 1
    /\ Last(output_HRR_ext_arr) > 0
    /\ Last(output_HRR_total_arr) = env.HRR_VC_lim
    /\ Last(output_HRR_wood_arr) > 0

\* C30: a step whose time is before the lining-ignition time leaves the
\* carried char density alone, so it is still 0 when no step has reached the
\* ignition time; at the first step after the ignition time the
\* char-regression term of lines 220-222 is then 0, unless the step before
\* lay exactly at the ignition time
C30_CharDensityFrame ==
    /\ []((pc = "loop" /\ RatLt(Last(output_time_arr), <<env.ceiling_ignition_time, 1>>))
            => char_rho = 0)
    /\ [][(pc = "loop" /\ i' = i + 1) =>
            LET cit == <<env.ceiling_ignition_time, 1>>
                time_s == Last(output_time_arr')
            IN  /\ RatLt(time_s, cit) => char_rho' = char_rho
                /\ (RatLt(cit, time_s) /\ RatLt(Last(output_time_arr), cit)) =>
                      /\ HRR_char_reg_calc(char_rho, interp1d(env.char_reg_interp, time_s),
                                           cfg.char_HoC, env.ceiling_area,
                                           cfg.ceiling_exposed) = 0
                      /\ Last(output_HRR_wood_arr') = 0]_vars

\* the first step after an ignition time that no step hit: the char has a
\* depth, the density carried into the step was 0 and is set by it
C30_Witness ==
    /\ pc = "loop" /\ i >= 2
    /\ RatLt(<<env.ceiling_ignition_time, 1>>, output_time_arr[i + 1])
    /\ RatLt(output_time_arr[i], <<env.ceiling_ignition_time, 1>>)
    /\ output_char_depth_arr[i] > 0
    /\ output_HRR_wood_arr[i + 1] = 0
    /\ char_rho > 0

\* the char-depth integrals of the histories up to each step, rebuilt from
\* the time and gas-temperature histories: 0, then the integral over steps
\* 0..j for j = 1..i
RawCharDepths ==
    [j \in 1..Len(output_time_arr) |->
        IF j = 1 THEN 0
        ELSE char_depth_integral(
                 SubSeq(output_gas_temp_arr, 1, j),
                 [k \in 1..j |-> Rat(output_time_arr[k][1], output_time_arr[k][2] * 60)])]

\* C21: the char depths held after a step are the integrals rebuilt from the
\* histories and smoothed once; nothing of the array carried from the step
\* before enters them
C21_CharDepthFromHistory ==
    pc = "loop" => output_char_depth_arr = gaussian_filter1d(RawCharDepths)

\* C26: for N >= 2 the field a call returns is the same whatever the scratch
\* array held before (here: its actual contents, all 0 K, all 9999 K), so it
\* is a function of the field passed and the scalar arguments alone; and the
\* array passed as T holds after the call what it held before
C26_SolverIsPure ==
    [][(pc = "wall" /\ i' = i + 1 /\ cfg.wall.N >= 2) =>
         /\ \A X \in { T_new, ones(cfg.wall.N, 0), ones(cfg.wall.N, 99990) } :
               T' = update_wall_temp_array(T, X, env.alpha_wall, env.dt,
                        env.dx_wall, cfg.hc, T_f, cfg.E_net, cfg.sigma,
                        cfg.wall.rho, cfg.wall.c, cfg.wall.N, q_rad_wall)
         /\ input_after(obj.T = obj.T_new, T, T') = T]_vars

\* three calls on a field of four or more nodes, the last of which changed
\* the surface node and an interior node
C26_Witness ==
    /\ pc = "wall" /\ i >= 3 /\ cfg.wall.N >= 4
    /\ T_history[i][1] # T_history[i - 1][1]
    /\ T_history[i][2] # T_history[i - 1][2]
    /\ T_new = T /\ obj.T # obj.T_new

\* every node of the field Tn is the value lines 55-69 give from the field Tw
\* of the step before, for the lining l
NodesFromPrevious(Tn, Tw, alpha, dx, l) ==
    \A j \in 1..l.N :
        Tn[j] = IF j = 1
                THEN exposed_node(Tw, alpha, env.dt, dx, cfg.hc, T_f, cfg.E_net,
                                  cfg.sigma, l.rho, l.c, q_rad_wall')
                ELSE IF j = l.N THEN insulated_node(Tw, l.N, alpha, env.dt, dx)
                ELSE interior_node(Tw, j, alpha, env.dt, dx)

\* C29: in the loop the field and the scratch array of a boundary are never
\* the same array object, and every node of the new field of a step is
\* computed from the field of the step before
C29_FieldAndScratchDistinct ==
    /\ [](pc = "loop" =>
            /\ obj.T # obj.T_new
            /\ obj.T_ceil # obj.T_ceil_new
            /\ obj.T_floor # obj.T_floor_new)
    /\ [][(pc = "loop" /\ i' = i + 1) =>
            /\ NodesFromPrevious(T', T, env.alpha_wall, env.dx_wall, cfg.wall)
            /\ NodesFromPrevious(T_ceil', T_ceil, env.alpha_ceil, env.dx_ceil, cfg.ceil)
            /\ NodesFromPrevious(T_floor', T_floor, env.alpha_floor, env.dx_floor,
                                 cfg.floor)]_vars

\* four steps taken, on a wall of four or more nodes whose surface and first
\* interior node changed in the last two steps
C29_Witness ==
    /\ pc = "loop" /\ i >= 4 /\ cfg.wall.N >= 4
    /\ T_history[i][1] # T_history[i - 1][1]
    /\ T_history[i][2] # T_history[i - 1][2]
    /\ T_history[i - 1][2] # T_history[i - 2][2]
    /\ obj.T # obj.T_new

====
